---- MODULE Spec2Model ----
(***************************************************************************)
(* Verification model of the orwell reconnaissance pipeline:               *)
(*   - the port-scanner's queue consumer (RabbitMQManager.ConsumeIPs /     *)
(*     handleMessage) and its sink fan-out,                                *)
(*   - the scan engine's own batch handler (ScanEngineService              *)
(*     .processMessage, entered through ProcessIP),                        *)
(*   - the ip-generator's address enumerator (random and sequential) and   *)
(*     its batch dispatcher.                                               *)
(* Each part has its own specification; the variables of the other parts   *)
(* stay unchanged under it.                                                *)
(***************************************************************************)
EXTENDS Integers, Sequences, FiniteSets, TLC

(***************************************************************************)
(* Bounds of the model.                                                    *)
(***************************************************************************)
\* messages the generator side puts on ip_queue
MaxPublished == 1
\* deliveries the consumer loop takes (redeliveries included)
MaxDeliveries == 2

(***************************************************************************)
(* PART 1 - port-scanner: scan results, queue consumer, sink fan-out       *)
(***************************************************************************)
VARIABLES
    scanHandlerSet,   \* r.scanHandler != nil
    dbManagerSet,     \* r.dbManager != nil
    enablePing,       \* scanConfig.EnablePing
    ipQueue,          \* ready messages of ip_queue, head first
    published,        \* number of messages put on ip_queue so far
    deliveryCount,    \* message id -> number of times the broker delivered it
    tagCount,         \* deliveries taken by the consumer so far
    cpc,              \* position of the consumer goroutine
    delivery,         \* the amqp.Delivery being handled (or NoDelivery)
    message,          \* the decoded domain.QueueMessage
    hidx,             \* index of the next element of message.IPs (1-based)
    herr,             \* handleMessage returned a non-nil error
    acks,             \* basic.ack frames sent for the current delivery
    nacks,            \* basic.nack frames sent for the current delivery
    ipLog             \* one entry per loop iteration of the current delivery

consumerVars == <<scanHandlerSet, dbManagerSet, enablePing, ipQueue, published,
                  deliveryCount, tagCount, cpc, delivery, message, hidx, herr,
                  acks, nacks, ipLog>>

\* ScanEngineService (processMessage, entered through ProcessIP)
VARIABLES
    epc,              \* position of processMessage: "idle" or "workers"
    emessage,         \* the domain.QueueMessage being processed
    edone,            \* indexes of message.IPs whose goroutine has finished
    elog,             \* index -> what the goroutine of that address did
    stats,            \* s.stats, the domain.ScanStats counters
    processCalls      \* ProcessIP calls made so far

engineVars == <<epc, emessage, edone, elog, stats, processCalls>>

\* ip-generator: IPGeneratorService and IPGenerationService
VARIABLES
    seed,             \* s.permutation.seed
    gpc,              \* position of the generator service ("new": not yet built)
    gcaller,          \* who called the running generator loop
    gcount,           \* count argument of the running generator call
    attempts,         \* GenerateRandomIPs: attempts
    generated,        \* GenerateRandomIPs: keys of the generated map
    ips,              \* the list of addresses built by the running call
    seqIP,            \* GenerateSequentialIPs: the 4-byte ip being incremented
    seqI,             \* GenerateSequentialIPs: loop counter i
    gresult,          \* what the last generator call returned: ips and err
                      \* (the locals of a call are cleared when it returns)
    dcount,           \* GenerateAndPublishIPs: count
    dbatchSize,       \* GenerateAndPublishIPs: batchSize (defaulted)
    di,               \* GenerateAndPublishIPs: loop counter i
    messages,         \* GenerateAndPublishIPs: the messages built so far
    derr,             \* GenerateAndPublishIPs: the error returned ("" is nil)
    dstartIP,         \* GenerateAndPublishSequentialIPs: currentStartIP
    outQueue          \* messages the current request has published on ip_queue

generatorVars == <<seed, gpc, gcaller, gcount, attempts, generated, ips, seqIP, seqI,
                   gresult, dcount, dbatchSize, di, messages, derr, dstartIP,
                   outQueue>>

\* banner package: ZGrabWorkerPool, and the scanner's banner wiring
VARIABLES
    bannerGrabber,    \* ScannerService.bannerGrabber: "none", "pool" or "zgrab"
    jobQueue,         \* p.jobQueue: buffered channel, head first (0 is nil)
    queueClosed,      \* close(p.jobQueue) has run
    ctxDone,          \* p.ctx is cancelled
    wpc,              \* worker -> "select", "busy" or "exited"
    wjob,             \* worker -> the job it is executing (0: none)
    rready,           \* jobs whose Result channel holds a result
    writes,           \* job -> results sent on its Result channel so far
    spc,              \* caller -> position of its GetBanner / SubmitJob call
    sres,             \* caller -> what its call returned
    safter,           \* caller in the first select -> Shutdown had begun at its call
    shpc,             \* position of Shutdown: "none", "sending", "returned"
    shi               \* Shutdown: loop counter i

poolVars == <<bannerGrabber, jobQueue, queueClosed, ctxDone, wpc, wjob, rready,
              writes, spc, sres, safter, shpc, shi>>

VARIABLES
    isRunning,        \* ScanEngineService.isRunning
    channelOpen,      \* RabbitMQManager.channel is open
    connOpen,         \* RabbitMQManager.conn is open
    consumers,        \* consumers registered on the ingress queue
    scanning,         \* the consumer goroutine is inside handleMessage, scanning
    startResult,      \* what the last StartScanning call returned ("" before any)
    lcalls,           \* StartScanning / StopScanning calls made by API clients
    mpc,              \* position of main
    deadline,         \* main's shutdown context: "none", "running", "expired"
    storeOpen         \* the MongoDB connection is open

lifeVars == <<isRunning, channelOpen, connOpen, consumers, scanning, startResult,
              lcalls, mpc, deadline, storeOpen>>

\* port-scanner: a scan requested directly from the scanner service
VARIABLES
    scanPc,           \* position of the ScanIP call: "idle" or "returned"
    scanReq,          \* the address and config.EnablePing of the call
    scanNet,          \* what the network answers during the call
    scanOut           \* what ScanIP returned, with the probes it made

scanVars == <<scanPc, scanReq, scanNet, scanOut>>

\* banner package: one banner request served by the BannerGrabber coordinator
VARIABLES
    grabPc,           \* position of the GetBanner call: "idle" or "returned"
    grabIn,           \* what the pool, zgrab2 and the service answer during the call
    grabOut           \* what the call returned, with the line reads it made

grabVars == <<grabPc, grabIn, grabOut>>

\* port-scanner: one ScanPorts call and its port goroutines
VARIABLES
    sweepPc,          \* position of ScanPorts: "idle", "waiting" (wg.Wait) or "returned"
    sweepNet,         \* what the network answers during the call
    portPc,           \* port -> position of its goroutine: "start", "scanning", "done"
    semaphore,        \* elements held by the semaphore channel
    results           \* the results slice

sweepVars == <<sweepPc, sweepNet, portPc, semaphore, results>>

\* port-scanner: concurrent callers of ScanStats.UpdateStats
VARIABLES
    counters,         \* the shared domain.ScanStats (s.stats)
    updPc,            \* caller -> position inside UpdateStats
    updReg,           \* caller -> the value it loaded and has not stored yet
    updResult,        \* caller -> Status of the result it records
    recorded,         \* UpdateStats calls that have returned
    view              \* the counters as the last GET /stats read them

statVars == <<counters, updPc, updReg, updResult, recorded, view>>

vars == <<consumerVars, engineVars, generatorVars, poolVars, lifeVars, scanVars,
          grabVars, sweepVars, statVars>>

workerID == "worker-1"

ScanStatusRunning == "running"
ScanStatusCompleted == "completed"
ScanStatusFailed == "failed"
PortStatusOpen == "open"
PortStatusClosed == "closed"

\* The addresses that occur in messages, as dotted quads: the tuple of the
\* decimal fields of the string (<<>> is the empty string).
ScanIPs == {<<1, 1, 1, 1>>, <<8, 8, 8, 8>>}
\* The effective port list of the scan configuration (a short one).
PortsToScan == <<22, 80>>
\* config.MaxRetries (the default is 3)
MaxRetries == 2

(* ---- domain.ScanResult ------------------------------------------------ *)
NewPort(number) == [Number |-> number, Status |-> PortStatusClosed, Banner |-> ""]

NewScanResult(ip, batchID, wid) ==
    [IP |-> ip, IsUp |-> FALSE, Ports |-> <<>>, Status |-> "pending",
     Error |-> "", BatchID |-> batchID, WorkerID |-> wid]

SetCompleted(sr) == [sr EXCEPT !.Status = ScanStatusCompleted]

SetFailed(sr, err) == [sr EXCEPT !.Status = ScanStatusFailed, !.Error = err]

AddPort(sr, port) == [sr EXCEPT !.Ports = Append(@, port)]

IsOpenPort(p) == p.Status = PortStatusOpen

GetOpenPorts(sr) == SelectSeq(sr.Ports, IsOpenPort)

(* ---- what the network answers to one scan ----------------------------- *)
PortSet == {PortsToScan[k] : k \in 1..Len(PortsToScan)}

\* What cmd.Run() of the ping command returns: nil (a reply came), an
\* *exec.ExitError whose text is the process state (ping exits with status 1
\* when no reply came: host unreachable, every packet lost), or the process
\* killed at the context's deadline.  The text is kept as its list of words.
PingRuns ==
    {[err |-> <<>>, ctxErr |-> FALSE],
     [err |-> <<"exit", "status", "1">>, ctxErr |-> FALSE],
     [err |-> <<"signal:", "killed">>, ctxErr |-> TRUE]}

\* What GetBanner returns on an open port: a banner, a BannerInfo together
\* with the error "no banner received" (empty read), or only an error (probe
\* error, pool backpressure, connect or read timeout).
BannerOutcomes == {"banner", "no banner received", "i/o timeout"}

\* The answers of the network during one scan, ping: the run of the ping
\* command; opensAt: the connect attempt from which the port accepts (0: it
\* never does); banner: the outcome of the banner grab on the port.
\* A delivered address meets a port that is open at once or not at all.
NetAnswers ==
    {[ping |-> pg,
      opensAt |-> [p \in PortSet |-> IF p \in open THEN 1 ELSE 0],
      banner |-> [p \in PortSet |-> "banner"]] :
        pg \in PingRuns, open \in SUBSET PortSet}

\* strings.Contains, on lists of words
Contains(text, phrase) ==
    \E k \in 0..(Len(text) - Len(phrase)) :
        SubSeq(text, k + 1, k + Len(phrase)) = phrase

\* SafePingService.analyzePingResult (Error = "" is nil)
analyzePingResult(run) ==
    IF run.err # <<>>
    THEN IF run.ctxErr
         THEN [IsUp |-> FALSE, Error |-> "ping timeout"]
         ELSE IF Contains(run.err, <<"executable", "file", "not", "found">>)
         THEN [IsUp |-> FALSE, Error |-> "ping command not available"]
         ELSE IF \/ Contains(run.err, <<"100%", "packet", "loss">>)
                 \/ Contains(run.err, <<"Destination", "Host", "Unreachable">>)
         THEN [IsUp |-> FALSE, Error |-> ""]
         ELSE [IsUp |-> FALSE, Error |-> "ping failed"]
    ELSE [IsUp |-> TRUE, Error |-> ""]

\* SafePingService.isValidIP: ^(\d{1,3}\.){3}\d{1,3}$ and every field <= 255
isValidIP(ip) ==
    /\ Len(ip) = 4
    /\ \A k \in 1..4 : ip[k] \in 0..999
    /\ \A k \in 1..4 : ip[k] <= 255

\* ScannerService.PingHost over SafePingService.PingHost; ran: the ping
\* command was executed.
PingHost(ip, run) ==
    IF ~isValidIP(ip)
    THEN [isUp |-> FALSE, err |-> "invalid IP address format", ran |-> FALSE]
    ELSE LET result == analyzePingResult(run)
         IN  IF result.Error # ""
             THEN [isUp |-> FALSE, err |-> result.Error, ran |-> TRUE]
             ELSE [isUp |-> result.IsUp, err |-> "", ran |-> TRUE]

\* ScannerService.GetBanner: the BannerInfo and the error ("" is nil)
BannerResult(outcome) ==
    [RawBanner |-> IF outcome = "banner" THEN "SSH-2.0-OpenSSH_8.9" ELSE "",
     err |-> IF outcome = "banner" THEN "" ELSE outcome]

\* (a ScanPort that gives the port up when its banner cannot be read)
ScanPortBannerFatal(port, open, outcome) ==
    IF open /\ BannerResult(outcome).err = ""
    THEN [port |-> [NewPort(port) EXCEPT !.Status = PortStatusOpen,
                                         !.Banner = BannerResult(outcome).RawBanner],
          err |-> ""]
    ELSE [port |-> [NewPort(port) EXCEPT !.Status = PortStatusClosed], err |-> ""]

\* ScannerService.ScanPort: one connect attempt; the port and the error ("" is
\* nil).  A refused or timed-out connect is a closed port and no error.
ScanPort(port, open, outcome) ==
    IF ~open
    THEN [port |-> [NewPort(port) EXCEPT !.Status = PortStatusClosed], err |-> ""]
    ELSE LET bannerInfo == BannerResult(outcome)
         IN  [port |-> [NewPort(port) EXCEPT
                           !.Status = PortStatusOpen,
                           !.Banner = IF bannerInfo.err = ""
                                      THEN bannerInfo.RawBanner ELSE @],
              err |-> ""]

\* ScannerService.scanPortWithRetry, from loop counter attempt on; attempts:
\* the calls of ScanPort made.
RECURSIVE scanPortWithRetry(_, _, _)
scanPortWithRetry(port, net, attempt) ==
    IF ~(attempt <= MaxRetries)
    THEN [port |-> NewPort(port), err |-> "lastErr", attempts |-> attempt]
    ELSE LET open == net.opensAt[port] # 0 /\ attempt + 1 >= net.opensAt[port]
             r == ScanPort(port, open, net.banner[port])
         IN  IF r.err = ""
             THEN [port |-> r.port, err |-> "", attempts |-> attempt + 1]
             ELSE scanPortWithRetry(port, net, attempt + 1)

\* ScannerService.ScanPorts: one goroutine per port (listed in port-list
\* order); a port whose retry loop returned an error is left out.
ScanPorts(ports, net) ==
    LET scans == [k \in 1..Len(ports) |-> scanPortWithRetry(ports[k], net, 0)]
        kept == {k \in 1..Len(ports) : scans[k].err = ""}
    IN  [ports |-> [k \in kept |-> scans[k].port],
         attempts |-> [k \in 1..Len(ports) |-> scans[k].attempts]]

RECURSIVE AddPorts(_, _)
AddPorts(sr, ports) ==
    IF ports = <<>> THEN sr
    ELSE AddPorts(AddPort(sr, Head(ports)), Tail(ports))

\* (a ScanIP that goes on to the ports whatever the ping said)
ScanIPIgnoringPing(ip, pingOn, batchID, wid, net) ==
    LET r0 == [NewScanResult(ip, batchID, wid) EXCEPT !.Status = ScanStatusRunning]
        p == PingHost(ip, net.ping)
        scan == ScanPorts(PortsToScan, net)
    IN  [result |-> SetCompleted(AddPorts([r0 EXCEPT !.IsUp = ~pingOn \/ p.isUp],
                                          scan.ports)),
         err |-> "", pinged |-> pingOn /\ p.ran, attempts |-> scan.attempts]

\* ScannerService.ScanIP: the pair (result, err), err = "" is nil; pinged: the
\* ping command was run; attempts: the connect attempts made on each port of
\* the port list (<<>>: the ports were not scanned).
ScanIP(ip, pingOn, batchID, wid, net) ==
    LET r0 == [NewScanResult(ip, batchID, wid) EXCEPT !.Status = ScanStatusRunning]
        p == PingHost(ip, net.ping)
        scan == ScanPorts(PortsToScan, net)
    IN  IF pingOn /\ p.err # ""
        THEN [result |-> SetFailed(r0, <<"ping failed: ", p.err>>),
              err |-> p.err, pinged |-> p.ran, attempts |-> <<>>]
        ELSE IF pingOn /\ ~p.isUp
        THEN [result |-> SetCompleted([r0 EXCEPT !.IsUp = FALSE]), err |-> "",
              pinged |-> p.ran, attempts |-> <<>>]
        ELSE [result |-> SetCompleted(AddPorts([r0 EXCEPT !.IsUp = TRUE], scan.ports)),
              err |-> "", pinged |-> pingOn /\ p.ran, attempts |-> scan.attempts]

(* ---- the four sinks --------------------------------------------------- *)
\* A sink call is recorded with its payload and whether it succeeded.
SaveScanResult(result, ok) ==
    [sink |-> "mongodb", payload |-> result, ok |-> ok]

PublishScanResult(result, ok) ==
    [sink |-> "scan_result_queue", payload |-> result, ok |-> ok]

PublishEnrichmentMessage(ip, isUp, batchID, ok) ==
    [sink |-> "enrichment_queue",
     payload |-> [ip |-> ip, is_up |-> isUp, batch_id |-> batchID], ok |-> ok]

PublishServiceAnalysis(ip, openPorts, batchID, ok) ==
    [sink |-> "service_analysis_queue",
     payload |-> [ip |-> ip, open_ports |-> openPorts, batch_id |-> batchID],
     ok |-> ok]

\* The outcomes of the sink calls of one iteration (used when the call is made).
SinkOutcomes == [save : BOOLEAN, result : BOOLEAN, enrich : BOOLEAN, service : BOOLEAN]

(* ---- messages on ip_queue --------------------------------------------- *)
MalformedBody == [kind |-> "malformed", ips |-> <<>>, batch_id |-> ""]

BatchBody(list, batchID) == [kind |-> "json", ips |-> list, batch_id |-> batchID]

\* The bodies that arrive: an undecodable one, a batch without addresses, and
\* batches of one and two addresses, one of them with an empty address string.
Bodies ==
    {MalformedBody,
     BatchBody(<<>>, "batch-7-0"),
     BatchBody(<<<<1, 1, 1, 1>>>>, "batch-7-0"),
     BatchBody(<<<<1, 1, 1, 1>>, <<8, 8, 8, 8>>>>, "batch-7-1"),
     BatchBody(<<<<>>, <<8, 8, 8, 8>>>>, "batch-7-2")}

\* json.Unmarshal(delivery.Body, &message)
Unmarshal(body) ==
    IF body.kind = "malformed"
    THEN [err |-> TRUE, msg |-> [IPs |-> <<>>, BatchID |-> ""]]
    ELSE [err |-> FALSE, msg |-> [IPs |-> body.ips, BatchID |-> body.batch_id]]

NoDelivery == [tag |-> 0, id |-> 0, body |-> MalformedBody]
NoMessage == [IPs |-> <<>>, BatchID |-> ""]

(* ---- handleMessage, one loop iteration -------------------------------- *)
\* Lines 155-189: the scan returned an error.
FailedScanCalls(ip, batchID, errText, dbSet, o) ==
    LET failedResult == [IP |-> ip, IsUp |-> FALSE, Ports |-> <<>>,
                         Status |-> ScanStatusFailed, Error |-> errText,
                         BatchID |-> batchID, WorkerID |-> workerID]
    IN  (IF dbSet THEN <<SaveScanResult(failedResult, o.save)>> ELSE <<>>)
        \o <<PublishScanResult(failedResult, o.result)>>
        \o <<PublishEnrichmentMessage(ip, FALSE, batchID, o.enrich)>>

\* (a handler that gives an address up when its result cannot be saved)
CompletedScanCallsSaveFatal(res, batchID, dbSet, o) ==
    IF dbSet /\ ~o.save
    THEN <<SaveScanResult(res, o.save)>>
    ELSE (IF dbSet THEN <<SaveScanResult(res, o.save)>> ELSE <<>>)
         \o <<PublishScanResult(res, o.result)>>

\* Lines 191-224: the scan returned a result.
CompletedScanCalls(res, batchID, dbSet, o) ==
    LET result == IF res.BatchID = "" THEN [res EXCEPT !.BatchID = batchID] ELSE res
        openPorts == GetOpenPorts(result)
    IN  (IF dbSet THEN <<SaveScanResult(result, o.save)>> ELSE <<>>)
        \o <<PublishScanResult(result, o.result)>>
        \o (IF ~o.result
            THEN <<>>
            ELSE <<PublishEnrichmentMessage(result.IP, result.IsUp, result.BatchID,
                                            o.enrich)>>
                 \o (IF Len(openPorts) > 0
                     THEN <<PublishServiceAnalysis(result.IP, openPorts,
                                                   result.BatchID, o.service)>>
                     ELSE <<>>))

\* Lines 144-225, the body of the loop for one element of message.IPs.
HandleIP(ip, batchID, pingOn, dbSet, net, o) ==
    IF ip = <<>>
    THEN [ip |-> ip, scanned |-> FALSE, err |-> "", db |-> dbSet, calls |-> <<>>]
    ELSE LET r == ScanIP(ip, pingOn, batchID, workerID, net)
         IN  IF r.err # ""
             THEN [ip |-> ip, scanned |-> TRUE, err |-> r.err, db |-> dbSet,
                   calls |-> FailedScanCalls(ip, batchID, r.err, dbSet, o)]
             ELSE [ip |-> ip, scanned |-> TRUE, err |-> "", db |-> dbSet,
                   calls |-> CompletedScanCalls(r.result, batchID, dbSet, o)]

\* (a loop that stops after its first element)
LoopFinishedAfterFirst(i, list) == i > 1

\* The loop of lines 144-225 is over once every element has had its iteration.
LoopFinished(i, list) == i > Len(list)

(* ---- configuration setters ------------------------------------------- *)
SetScanHandler ==
    /\ UNCHANGED <<engineVars, generatorVars, poolVars, lifeVars, scanVars, grabVars, sweepVars, statVars>>
    /\ ~scanHandlerSet
    /\ scanHandlerSet' = TRUE
    /\ UNCHANGED <<dbManagerSet, enablePing, ipQueue, published, deliveryCount,
                   tagCount, cpc, delivery, message, hidx, herr, acks, nacks, ipLog>>

\* SetScanConfig, called by main before scanning starts: the configuration
\* that is loaded may have the ping turned off (the default has it on).
SetScanConfig ==
    /\ UNCHANGED <<engineVars, generatorVars, poolVars, lifeVars, scanVars, grabVars, sweepVars, statVars>>
    /\ enablePing
    /\ tagCount = 0
    /\ enablePing' = FALSE
    /\ UNCHANGED <<scanHandlerSet, dbManagerSet, ipQueue, published, deliveryCount,
                   tagCount, cpc, delivery, message, hidx, herr, acks, nacks, ipLog>>

SetMongoDBManager ==
    /\ UNCHANGED <<engineVars, generatorVars, poolVars, lifeVars, scanVars, grabVars, sweepVars, statVars>>
    /\ ~dbManagerSet
    /\ dbManagerSet' = TRUE
    /\ UNCHANGED <<scanHandlerSet, enablePing, ipQueue, published, deliveryCount,
                   tagCount, cpc, delivery, message, hidx, herr, acks, nacks, ipLog>>

(* ---- the broker side -------------------------------------------------- *)
\* A producer puts a message on ip_queue.
EnqueueMessage ==
    /\ UNCHANGED <<engineVars, generatorVars, poolVars, lifeVars, scanVars, grabVars, sweepVars, statVars>>
    /\ published < MaxPublished
    /\ \E body \in Bodies :
          ipQueue' = Append(ipQueue, [id |-> published + 1, body |-> body])
    /\ published' = published + 1
    /\ UNCHANGED <<scanHandlerSet, dbManagerSet, enablePing, deliveryCount,
                   tagCount, cpc, delivery, message, hidx, herr, acks, nacks, ipLog>>

(* ---- ConsumeIPs goroutine -------------------------------------------- *)
\* `for msg := range msgs`: the next delivery arrives.
Deliver ==
    /\ UNCHANGED <<engineVars, generatorVars, poolVars, lifeVars, scanVars, grabVars, sweepVars, statVars>>
    /\ cpc = "recv"
    /\ ipQueue # <<>>
    /\ tagCount < MaxDeliveries
    /\ delivery' = [tag |-> tagCount + 1, id |-> Head(ipQueue).id,
                    body |-> Head(ipQueue).body]
    /\ deliveryCount' = [deliveryCount EXCEPT ![Head(ipQueue).id] = @ + 1]
    /\ ipQueue' = Tail(ipQueue)
    /\ tagCount' = tagCount + 1
    /\ cpc' = "handle"
    /\ message' = NoMessage
    /\ hidx' = 1
    /\ herr' = FALSE
    /\ acks' = 0
    /\ nacks' = 0
    /\ ipLog' = <<>>
    /\ UNCHANGED <<scanHandlerSet, dbManagerSet, enablePing, published>>

\* handleMessage lines 120-141: decode and validate.
HandleStart ==
    /\ UNCHANGED <<engineVars, generatorVars, poolVars, lifeVars, scanVars, grabVars, sweepVars, statVars>>
    /\ cpc = "handle"
    /\ LET u == Unmarshal(delivery.body)
       IN  IF u.err
           THEN /\ herr' = TRUE
                /\ cpc' = "returned"
                /\ UNCHANGED <<message, acks>>
           ELSE IF Len(u.msg.IPs) = 0
           THEN /\ message' = u.msg
                /\ acks' = acks + 1
                /\ herr' = TRUE
                /\ cpc' = "returned"
           ELSE IF ~scanHandlerSet
           THEN /\ message' = u.msg
                /\ herr' = TRUE
                /\ cpc' = "returned"
                /\ UNCHANGED acks
           ELSE /\ message' = u.msg
                /\ cpc' = "loop"
                /\ UNCHANGED <<herr, acks>>
    /\ UNCHANGED <<scanHandlerSet, dbManagerSet, enablePing, ipQueue, published,
                   deliveryCount, tagCount, delivery, hidx, nacks, ipLog>>

\* handleMessage lines 144-225: one iteration of the loop.
HandleLoop ==
    /\ UNCHANGED <<engineVars, generatorVars, poolVars, lifeVars, scanVars, grabVars, sweepVars, statVars>>
    /\ cpc = "loop"
    /\ ~LoopFinished(hidx, message.IPs)
    /\ \E net \in NetAnswers, o \in SinkOutcomes :
          ipLog' = Append(ipLog, HandleIP(message.IPs[hidx], message.BatchID,
                                          enablePing, dbManagerSet, net, o))
    /\ hidx' = hidx + 1
    /\ UNCHANGED <<scanHandlerSet, dbManagerSet, enablePing, ipQueue, published,
                   deliveryCount, tagCount, cpc, delivery, message, herr, acks, nacks>>

\* handleMessage lines 227-229: delivery.Ack(false); return nil.
HandleAck ==
    /\ UNCHANGED <<engineVars, generatorVars, poolVars, lifeVars, scanVars, grabVars, sweepVars, statVars>>
    /\ cpc = "loop"
    /\ LoopFinished(hidx, message.IPs)
    /\ acks' = acks + 1
    /\ herr' = FALSE
    /\ cpc' = "returned"
    /\ UNCHANGED <<scanHandlerSet, dbManagerSet, enablePing, ipQueue, published,
                   deliveryCount, tagCount, delivery, message, hidx, nacks, ipLog>>

\* ConsumeIPs lines 108-112: on error msg.Nack(false, true).  The broker puts a
\* nacked message back at the head of the queue unless it was already acked.
ConsumeNext ==
    /\ UNCHANGED <<engineVars, generatorVars, poolVars, lifeVars, scanVars, grabVars, sweepVars, statVars>>
    /\ cpc = "returned"
    /\ IF herr
       THEN /\ nacks' = nacks + 1
            /\ ipQueue' = IF acks = 0
                          THEN <<[id |-> delivery.id, body |-> delivery.body]>> \o ipQueue
                          ELSE ipQueue
       ELSE UNCHANGED <<nacks, ipQueue>>
    /\ cpc' = "recv"
    /\ message' = NoMessage
    /\ hidx' = 1
    /\ ipLog' = <<>>
    /\ UNCHANGED <<scanHandlerSet, dbManagerSet, enablePing, published, deliveryCount,
                   tagCount, delivery, herr, acks>>

ConsumerInit ==
    /\ scanHandlerSet = FALSE
    /\ dbManagerSet = FALSE
    /\ enablePing = TRUE
    /\ ipQueue = <<>>
    /\ published = 0
    /\ deliveryCount = [i \in 1..(MaxPublished + 1) |-> 0]
    /\ tagCount = 0
    /\ cpc = "recv"
    /\ delivery = NoDelivery
    /\ message = NoMessage
    /\ hidx = 1
    /\ herr = FALSE
    /\ acks = 0
    /\ nacks = 0
    /\ ipLog = <<>>

ConsumerNext ==
    \/ SetScanHandler
    \/ SetScanConfig
    \/ SetMongoDBManager
    \/ EnqueueMessage
    \/ Deliver
    \/ HandleStart
    \/ HandleLoop
    \/ HandleAck
    \/ ConsumeNext

(***************************************************************************)
(* PART 2 - port-scanner: ScanEngineService.processMessage                 *)
(***************************************************************************)
\* ProcessIP calls made before the model stops
MaxProcessCalls == 2

\* domain.ScanStats.UpdateStats: the three counters.
UpdateStats(st, result) ==
    [TotalScanned |-> st.TotalScanned + 1,
     SuccessfulScans |-> IF result.Status = ScanStatusCompleted
                         THEN st.SuccessfulScans + 1 ELSE st.SuccessfulScans,
     FailedScans |-> IF result.Status = ScanStatusCompleted
                     THEN st.FailedScans ELSE st.FailedScans + 1]

\* processMessage lines 112-133: the sink calls of one goroutine.
EngineCalls(result, batchID, o) ==
    <<PublishScanResult(result, o.result)>>
    \o (IF result.IsUp
        THEN <<PublishEnrichmentMessage(result.IP, TRUE, batchID, o.enrich)>>
        ELSE <<>>)
    \o (IF Len(GetOpenPorts(result)) > 0
        THEN <<PublishServiceAnalysis(result.IP, GetOpenPorts(result), batchID,
                                      o.service)>>
        ELSE <<>>)

\* processMessage lines 95-134: the goroutine of one address.  The call
\* s.scanner.ScanIP(ipAddr, s.config) passes no batch or worker identifier.
EngineWorkerEntry(ip, batchID, pingOn, net, o) ==
    LET r == ScanIP(ip, pingOn, "", "", net)
    IN  IF r.err # ""
        THEN [ip |-> ip, scanned |-> TRUE, err |-> r.err, db |-> FALSE,
              calls |-> <<>>]
        ELSE [ip |-> ip, scanned |-> TRUE, err |-> "", db |-> FALSE,
              calls |-> EngineCalls(r.result, batchID, o)]

\* ProcessIP: builds a one-address message and calls processMessage, which
\* starts one goroutine per address (lines 93-135).
ProcessIP ==
    /\ UNCHANGED <<consumerVars, generatorVars, poolVars, lifeVars, scanVars, grabVars, sweepVars, statVars>>
    /\ epc = "idle"
    /\ processCalls < MaxProcessCalls
    /\ \E ip \in ScanIPs :
          emessage' = [IPs |-> <<ip>>, BatchID |-> "manual-1", Count |-> 1]
    /\ edone' = {}
    /\ elog' = <<>>
    /\ epc' = "workers"
    /\ processCalls' = processCalls + 1
    /\ UNCHANGED stats

\* One goroutine runs: scan, statistics, publishes.
EngineWorker ==
    /\ UNCHANGED <<consumerVars, generatorVars, poolVars, lifeVars, scanVars, grabVars, sweepVars, statVars>>
    /\ epc = "workers"
    /\ \E i \in (1..Len(emessage.IPs)) \ edone, net \in NetAnswers, o \in SinkOutcomes :
          LET e == EngineWorkerEntry(emessage.IPs[i], emessage.BatchID, enablePing,
                                     net, o)
          IN  /\ elog' = [k \in edone \cup {i} |-> IF k = i THEN e ELSE elog[k]]
              /\ edone' = edone \cup {i}
              /\ stats' = IF e.err # "" THEN stats
                          ELSE UpdateStats(stats, e.calls[1].payload)
    /\ UNCHANGED <<epc, emessage, processCalls>>

\* wg.Wait() returns once every goroutine is done; processMessage returns nil.
EngineReturn ==
    /\ UNCHANGED <<consumerVars, generatorVars, poolVars, lifeVars, scanVars, grabVars, sweepVars, statVars>>
    /\ epc = "workers"
    /\ edone = 1..Len(emessage.IPs)
    /\ epc' = "idle"
    /\ UNCHANGED <<emessage, edone, elog, stats, processCalls>>

EngineInit ==
    /\ epc = "idle"
    /\ emessage = [IPs |-> <<>>, BatchID |-> "", Count |-> 0]
    /\ edone = {}
    /\ elog = <<>>
    /\ stats = [TotalScanned |-> 0, SuccessfulScans |-> 0, FailedScans |-> 0]
    /\ processCalls = 0

EngineNext ==
    \/ ProcessIP
    \/ EngineWorker
    \/ EngineReturn

(***************************************************************************)
(* PART 3 - ip-generator: address enumerator and batch dispatcher          *)
(***************************************************************************)
\* largest count (and batch size) of a generation request
MaxCount == 2

(* ---- 32-bit unsigned arithmetic --------------------------------------- *)
\* A uint32 is held as the pair <<hi, lo>> of its 16-bit halves: the model
\* checker's integers are 32-bit signed and cannot hold values from 2^31 on.
W16 == 256 * 256

Le32(x, y) == x[1] < y[1] \/ (x[1] = y[1] /\ x[2] <= y[2])

Ge32(x, y) == Le32(y, x)

RECURSIVE XorBits(_, _, _)
XorBits(a, b, n) ==
    IF n = 0 THEN 0
    ELSE (((a % 2) + (b % 2)) % 2) + 2 * XorBits(a \div 2, b \div 2, n - 1)

\* x ^ y
Xor32(x, y) == <<XorBits(x[1], y[1], 16), XorBits(x[2], y[2], 16)>>

\* The full product of two 16-bit words, from products of their bytes.
Mul16(a, b) ==
    LET a1 == a \div 256
        a0 == a % 256
        b1 == b \div 256
        b0 == b % 256
        p0 == a0 * b0
        p1 == a1 * b0 + a0 * b1
        p2 == a1 * b1
        low == p0 + (p1 % 256) * 256
    IN  <<(p2 + (p1 \div 256) + (low \div W16)) % W16, low % W16>>

\* x * y, modulo 2^32
Mul32(x, y) ==
    LET p == Mul16(x[2], y[2])
        c1 == Mul16(x[1], y[2])[2]
        c2 == Mul16(x[2], y[1])[2]
    IN  <<(p[1] + c1 + c2) % W16, p[2]>>

RECURSIVE Pow2(_)
Pow2(n) == IF n = 0 THEN 1 ELSE 2 * Pow2(n - 1)

\* x >> n, for 0 < n <= 16
Shr32(x, n) ==
    <<x[1] \div Pow2(n), (x[1] % Pow2(n)) * Pow2(16 - n) + (x[2] \div Pow2(n))>>

(* ---- IPPermutation.permute32 ------------------------------------------ *)
\* (an even multiplier, 0x7ffffffe)
primeEven == <<\H7fff, \Hfffe>>

\* 0x7fffffff
prime == <<\H7fff, \Hffff>>

permute32(x, sd) ==
    LET x1 == Xor32(Mul32(x, prime), sd)
        x2 == Xor32(x1, Shr32(x1, 16))
        x3 == Mul32(x2, <<\H85eb, \Hca6b>>)
        x4 == Xor32(x3, Shr32(x3, 13))
        x5 == Mul32(x4, <<\Hc2b2, \Hae35>>)
    IN  Xor32(x5, Shr32(x5, 16))

(* ---- addresses -------------------------------------------------------- *)
\* A net.IP of four bytes is the tuple <<b0, b1, b2, b3>>; a dotted quad is
\* the tuple of its four decimal fields.  NilIP is the nil net.IP.
NilIP == <<>>

\* net.ParseIP(s).To4(): nil unless s has four fields, each 0..255.
ParseIP(s) ==
    IF Len(s) = 4 /\ \A k \in 1..4 : s[k] \in 0..255
    THEN [k \in 1..4 |-> s[k]]
    ELSE NilIP

\* net.IP.String() of a four-byte address.
IPString(ip) == [k \in 1..4 |-> ip[k]]

\* isValidIPv4
isValidIPv4(address) == ParseIP(address) # NilIP

\* NewIPAddress: the address and the error ("" is nil).
NewIPAddress(address) ==
    IF ~isValidIPv4(address)
    THEN [Address |-> address, err |-> "invalid IPv4 address"]
    ELSE [Address |-> address, err |-> ""]

\* uint32(ip4[0])<<24 + uint32(ip4[1])<<16 + uint32(ip4[2])<<8 + uint32(ip4[3])
IPToUint(ip4) == <<ip4[1] * 256 + ip4[2], ip4[3] * 256 + ip4[4]>>

\* []byte{byte(p >> 24), byte(p >> 16), byte(p >> 8), byte(p)}
UintToIP(p) == <<p[1] \div 256, p[1] % 256, p[2] \div 256, p[2] % 256>>

(* (the range table without the 192.168.0.0/16 and 224.0.0.0/4 checks) *)
ExcludedRangesIncomplete ==
    << [lo |-> <<\H0000, \H0000>>, hi |-> <<\H00FF, \HFFFF>>],
       [lo |-> <<\H0A00, \H0000>>, hi |-> <<\H0AFF, \HFFFF>>],
       [lo |-> <<\H7F00, \H0000>>, hi |-> <<\H7FFF, \HFFFF>>],
       [lo |-> <<\HF000, \H0000>>, hi |-> <<\HFFFF, \HFFFF>>] >>

\* The range checks of isValidPublicIP, in order: each returns false for
\* lo <= ipUint <= hi (the first has no lower test, the last no upper test).
ExcludedRanges ==
    << [lo |-> <<\H0000, \H0000>>, hi |-> <<\H00FF, \HFFFF>>],
       [lo |-> <<\H0A00, \H0000>>, hi |-> <<\H0AFF, \HFFFF>>],
       [lo |-> <<\H7F00, \H0000>>, hi |-> <<\H7FFF, \HFFFF>>],
       [lo |-> <<\HC0A8, \H0000>>, hi |-> <<\HC0A8, \HFFFF>>],
       [lo |-> <<\HE000, \H0000>>, hi |-> <<\HEFFF, \HFFFF>>],
       [lo |-> <<\HF000, \H0000>>, hi |-> <<\HFFFF, \HFFFF>>] >>

InRange(u, r) == Ge32(u, r.lo) /\ Le32(u, r.hi)

isValidPublicIP(ip) ==
    /\ ip # NilIP
    /\ \A k \in 1..Len(ExcludedRanges) : ~InRange(IPToUint(ip), ExcludedRanges[k])

\* for j := 3; j >= 0; j-- { ip[j]++; if ip[j] != 0 { break } }
RECURSIVE IncrementFrom(_, _)
IncrementFrom(ip, j) ==
    IF j < 1 THEN ip
    ELSE LET v == (ip[j] + 1) % 256
             next == [ip EXCEPT ![j] = v]
         IN  IF v # 0 THEN next ELSE IncrementFrom(next, j - 1)

\* (an increment by two)
IncrementIPByTwo(ip) == IncrementFrom(IncrementFrom(ip, 4), 4)

IncrementIP(ip) == IncrementFrom(ip, 4)

\* The last address of the excluded range that holds the invalid address ip.
RangeLast(ip) ==
    LET k == CHOOSE k \in 1..Len(ExcludedRanges) :
                 /\ InRange(IPToUint(ip), ExcludedRanges[k])
                 /\ \A m \in 1..(k - 1) : ~InRange(IPToUint(ip), ExcludedRanges[m])
    IN  UintToIP(ExcludedRanges[k].hi)

\* GenerateSequentialIPs lines 203-211: `for !isValidPublicIP(ip) { ip++ }`.
\* Every address from an invalid ip up to the last address of its range is
\* invalid, so the loop's increments carry ip to that last address and one
\* further; the model takes these increments in one stride and tests again.
RECURSIVE SkipInvalid(_)
SkipInvalid(ip) ==
    IF isValidPublicIP(ip) THEN ip
    ELSE SkipInvalid(IncrementIP(RangeLast(ip)))

(* ---- the generator service -------------------------------------------- *)
\* maxAttempts := count * 100
AttemptsPerIP == 100
\* batchSize = 100 // default batch size
DefaultBatchSize == 100

\* Seeds the service may be constructed with (uint32(time.Now().UnixNano())).
Seeds == {<<\H0000, \H0000>>, <<\HDEAD, \HBEEF>>}

\* Values s.rand.Int31() returns (31-bit, non-negative); any of them may be
\* drawn at any attempt, so repeated draws are included.
Draws == {<<0, 0>>, <<0, 1>>, <<0, 2>>, <<\H7fff, \Hffff>>}

\* Start addresses given to GenerateSequentialIPs, as dotted quads; the last
\* one does not parse.
StartIPs ==
    {<<1, 2, 3, 254>>, <<9, 9, 9, 255>>, <<9, 255, 255, 254>>, <<10, 0, 0, 5>>,
     <<126, 255, 255, 255>>, <<192, 167, 255, 255>>, <<223, 255, 255, 255>>,
     <<255, 255, 255, 255>>, <<0, 0, 0, 0>>, <<1, 2, 3, 256>>}

NoResult == [ips |-> <<>>, err |-> ""]

\* s.permutation.permute32(randomUint), tabulated once for the seeds and draws
\* above (the same values, computed once instead of at every step).
PermutedDraws == [sd \in Seeds |-> [x \in Draws |-> permute32(x, sd)]]

\* (a generator that never finds a key in the map)
NeverGenerated(gen, p) == FALSE

\* The key test of the generated map (line 153).
AlreadyGenerated(gen, p) == p \in gen

\* Where a generator call returns to: its caller's next position.
ReturnTo(caller) == IF caller = "direct" THEN "done" ELSE "collect"

\* (a loop that tests its condition only after the first iteration)
RandomLoopConditionAfterBody(list, count, att) ==
    att = 0 \/ (Len(list) < count /\ att < count * AttemptsPerIP)

\* (a loop that allows one attempt more)
RandomLoopConditionOneMore(list, count, att) ==
    Len(list) < count /\ att <= count * AttemptsPerIP

\* GenerateRandomIPs line 143: the loop condition.
RandomLoopCondition(list, count, att) ==
    Len(list) < count /\ att < count * AttemptsPerIP

\* Entry of GenerateRandomIPs(count), lines 137-141.
StartRandom(count, caller) ==
    /\ gpc' = "random"
    /\ gcaller' = caller
    /\ gcount' = count
    /\ attempts' = 0
    /\ generated' = {}
    /\ ips' = <<>>

\* NewIPGeneratorService: the seed is fixed when the service is constructed.
NewIPGeneratorService ==
    /\ UNCHANGED <<consumerVars, engineVars, poolVars, lifeVars, scanVars, grabVars, sweepVars, statVars>>
    /\ gpc = "new"
    /\ seed' \in Seeds
    /\ gpc' = "idle"
    /\ UNCHANGED <<gcaller, gcount, attempts, generated, ips, seqIP, seqI, gresult,
                   dcount, dbatchSize, di, messages, derr, dstartIP, outQueue>>

\* A direct call GenerateRandomIPs(count) (also GenerateIPs(count)).
GenerateRandomIPs ==
    /\ UNCHANGED <<consumerVars, engineVars, poolVars, lifeVars, scanVars, grabVars, sweepVars, statVars>>
    /\ gpc = "idle"
    /\ \E count \in 0..MaxCount : StartRandom(count, "direct")
    /\ gresult' = NoResult
    /\ UNCHANGED <<seed, seqIP, seqI, dcount, dbatchSize, di, messages, derr, dstartIP, outQueue>>

\* GenerateRandomIPs lines 146-181: the body of the loop for the value
\* randomUint of s.rand.Int31(); the generated map and the list after it.
RandomStep(gen, list, sd, randomUint) ==
    LET permutedIP == PermutedDraws[sd][randomUint]
        ip == UintToIP(permutedIP)
        ipAddress == NewIPAddress(IPString(ip))
    IN  IF AlreadyGenerated(gen, permutedIP)
        THEN [generated |-> gen, ips |-> list]
        ELSE IF ~isValidPublicIP(ip)
        THEN [generated |-> gen, ips |-> list]
        ELSE [generated |-> gen \cup {permutedIP},
              ips |-> IF ipAddress.err # "" THEN list
                      ELSE Append(list, ipAddress.Address)]

\* GenerateRandomIPs lines 143-182: one iteration of the loop.  The random
\* source is seeded from the clock when the service is built (line 125), so
\* any value may be drawn.
RandomIteration ==
    /\ UNCHANGED <<consumerVars, engineVars, poolVars, lifeVars, scanVars, grabVars, sweepVars, statVars>>
    /\ gpc = "random"
    /\ RandomLoopCondition(ips, gcount, attempts)
    /\ attempts' = attempts + 1
    /\ \E randomUint \in Draws :
          LET after == RandomStep(generated, ips, seed, randomUint)
          IN  /\ generated' = after.generated
              /\ ips' = after.ips
    /\ UNCHANGED <<seed, gpc, gcaller, gcount, seqIP, seqI, gresult, dcount,
                   dbatchSize, di, messages, derr, dstartIP, outQueue>>

\* GenerateRandomIPs lines 184-188: the loop is over, return.
RandomReturn ==
    /\ UNCHANGED <<consumerVars, engineVars, poolVars, lifeVars, scanVars, grabVars, sweepVars, statVars>>
    /\ gpc = "random"
    /\ ~RandomLoopCondition(ips, gcount, attempts)
    /\ gresult' = IF Len(ips) < gcount
                  THEN [ips |-> <<>>, err |-> "could only generate fewer valid IPs"]
                  ELSE [ips |-> ips, err |-> ""]
    /\ gpc' = ReturnTo(gcaller)
    /\ attempts' = 0
    /\ generated' = {}
    /\ ips' = <<>>
    /\ UNCHANGED <<seed, gcaller, gcount, seqIP, seqI, dcount, dbatchSize, di,
                   messages, derr, dstartIP, outQueue>>

\* Entry of GenerateSequentialIPs(startIP, count), lines 193-199.
StartSequential(startIP, count, caller) ==
    LET parsedIP == ParseIP(startIP)
    IN  /\ IF parsedIP = NilIP
           THEN /\ gresult' = [ips |-> <<>>, err |-> "invalid starting IP address"]
                /\ gpc' = ReturnTo(caller)
                /\ UNCHANGED <<gcount, seqIP>>
           ELSE /\ gresult' = NoResult
                /\ gpc' = "sequential"
                /\ gcount' = count
                /\ seqIP' = parsedIP
        /\ gcaller' = caller
        /\ seqI' = 0
        /\ ips' = <<>>

\* GenerateSequentialIPs lines 200-229 as a whole, from the parsed address ip:
\* the list a call returns (NewIPAddress accepts every valid address).
RECURSIVE SequentialIPs(_, _)
SequentialIPs(ip, count) ==
    IF count = 0 THEN <<>>
    ELSE <<SkipInvalid(ip)>> \o SequentialIPs(IncrementIP(SkipInvalid(ip)), count - 1)

\* A direct call GenerateSequentialIPs(startIP, count).
GenerateSequentialIPs ==
    /\ UNCHANGED <<consumerVars, engineVars, poolVars, lifeVars, scanVars, grabVars, sweepVars, statVars>>
    /\ gpc = "idle"
    /\ \E startIP \in StartIPs, count \in 0..MaxCount :
          StartSequential(startIP, count, "direct")
    /\ UNCHANGED <<seed, attempts, generated, dcount, dbatchSize, di, messages, derr,
                   dstartIP, outQueue>>

\* GenerateSequentialIPs lines 201-227: one iteration of the outer loop.
SequentialIteration ==
    /\ UNCHANGED <<consumerVars, engineVars, poolVars, lifeVars, scanVars, grabVars, sweepVars, statVars>>
    /\ gpc = "sequential"
    /\ seqI < gcount
    /\ LET ip == SkipInvalid(seqIP)
           ipAddress == NewIPAddress(IPString(ip))
       IN  IF ipAddress.err # ""
           THEN /\ gresult' = [ips |-> <<>>, err |-> ipAddress.err]
                /\ gpc' = ReturnTo(gcaller)
                /\ UNCHANGED <<ips, seqIP, seqI>>
           ELSE /\ ips' = Append(ips, ipAddress.Address)
                /\ seqIP' = IncrementIP(ip)
                /\ seqI' = seqI + 1
                /\ UNCHANGED <<gresult, gpc>>
    /\ UNCHANGED <<seed, gcaller, gcount, attempts, generated, dcount, dbatchSize,
                   di, messages, derr, dstartIP, outQueue>>

\* GenerateSequentialIPs line 229: return ips, nil.
SequentialReturn ==
    /\ UNCHANGED <<consumerVars, engineVars, poolVars, lifeVars, scanVars, grabVars, sweepVars, statVars>>
    /\ gpc = "sequential"
    /\ ~(seqI < gcount)
    /\ gresult' = [ips |-> ips, err |-> ""]
    /\ gpc' = ReturnTo(gcaller)
    /\ ips' = <<>>
    /\ UNCHANGED <<seed, gcaller, gcount, attempts, generated, seqIP, seqI,
                   dcount, dbatchSize, di, messages, derr, dstartIP, outQueue>>

(* ---- IPGenerationService.GenerateAndPublishIPs ------------------------ *)
\* largest count and batch size of a dispatcher request
MaxRequest == 3

\* numBatches := (count + batchSize - 1) / batchSize
NumBatches(count, batchSize) == (count + batchSize - 1) \div batchSize

\* (a dispatcher that gives every batch, the last included, the full size)
CurrentBatchSizeFull(i, count, batchSize) == batchSize

\* Lines 42-45: the size of batch i.
CurrentBatchSize(i, count, batchSize) ==
    IF i = NumBatches(count, batchSize) - 1 /\ count % batchSize # 0
    THEN count % batchSize
    ELSE batchSize

\* Lines 26-39: argument checks and set-up.
GenerateAndPublishIPs ==
    /\ UNCHANGED <<consumerVars, engineVars, poolVars, lifeVars, scanVars, grabVars, sweepVars, statVars>>
    /\ gpc = "idle"
    /\ \E count \in 0..MaxRequest, batchSize \in 0..MaxRequest :
          IF count <= 0
          THEN /\ derr' = "count must be greater than 0"
               /\ gpc' = "done"
               /\ UNCHANGED <<dcount, dbatchSize>>
          ELSE /\ derr' = ""
               /\ gpc' = "batches"
               /\ dcount' = count
               /\ dbatchSize' = IF batchSize <= 0 THEN DefaultBatchSize ELSE batchSize
    /\ gcaller' = "dispatch"
    /\ di' = 0
    /\ messages' = <<>>
    /\ gresult' = NoResult
    /\ UNCHANGED <<seed, gcount, attempts, generated, ips, seqIP, seqI, dstartIP, outQueue>>

\* Lines 41-48: the next batch asks the generator for its addresses.
DispatchGenerate ==
    /\ UNCHANGED <<consumerVars, engineVars, poolVars, lifeVars, scanVars, grabVars, sweepVars, statVars>>
    /\ gpc = "batches"
    /\ gcaller = "dispatch"
    /\ di < NumBatches(dcount, dbatchSize)
    /\ StartRandom(CurrentBatchSize(di, dcount, dbatchSize), "dispatch")
    /\ UNCHANGED <<seed, seqIP, seqI, gresult, dcount, dbatchSize, di, messages, derr, dstartIP, outQueue>>

\* Lines 49-66: the generator returned; build the message of batch i.
DispatchCollect ==
    /\ UNCHANGED <<consumerVars, engineVars, poolVars, lifeVars, scanVars, grabVars, sweepVars, statVars>>
    /\ gpc = "collect"
    /\ gcaller = "dispatch"
    /\ IF gresult.err # ""
       THEN /\ derr' = "failed to generate IPs for batch"
            /\ gpc' = "done"
            /\ UNCHANGED <<messages, di>>
       ELSE /\ messages' = Append(messages, [IPs |-> gresult.ips,
                                             BatchID |-> <<"batch-7", di>>,
                                             Count |-> Len(gresult.ips)])
            /\ di' = di + 1
            /\ gpc' = "batches"
            /\ UNCHANGED derr
    /\ UNCHANGED <<seed, gcaller, gcount, attempts, generated, ips, seqIP, seqI,
                   gresult, dcount, dbatchSize, dstartIP, outQueue>>

\* (an incrementIP that hands its argument back)
incrementIPSame(ipStr) == ipStr

\* incrementIP of service.go: the dotted quad one above ipStr, or ipStr itself
\* when it does not parse.
incrementIP(ipStr) ==
    LET parsedIP == ParseIP(ipStr)
    IN  IF parsedIP = NilIP THEN ipStr ELSE IPString(IncrementIP(parsedIP))

\* GenerateAndPublishSequentialIPs lines 78-92: argument checks and set-up.
GenerateAndPublishSequentialIPs ==
    /\ UNCHANGED <<consumerVars, engineVars, poolVars, lifeVars, scanVars, grabVars, sweepVars, statVars>>
    /\ gpc = "idle"
    /\ \E startIP \in StartIPs, count \in 0..MaxRequest, batchSize \in 0..MaxRequest :
          IF count <= 0
          THEN /\ derr' = "count must be greater than 0"
               /\ gpc' = "done"
               /\ UNCHANGED <<dcount, dbatchSize, dstartIP>>
          ELSE /\ derr' = ""
               /\ gpc' = "batches"
               /\ dcount' = count
               /\ dbatchSize' = IF batchSize <= 0 THEN DefaultBatchSize ELSE batchSize
               /\ dstartIP' = startIP
    /\ gcaller' = "seqdispatch"
    /\ di' = 0
    /\ messages' = <<>>
    /\ gresult' = NoResult
    /\ UNCHANGED <<seed, gcount, attempts, generated, ips, seqIP, seqI, outQueue>>

\* Lines 94-101: the next batch asks the generator for its addresses.
DispatchGenerateSequential ==
    /\ UNCHANGED <<consumerVars, engineVars, poolVars, lifeVars, scanVars, grabVars, sweepVars, statVars>>
    /\ gpc = "batches"
    /\ gcaller = "seqdispatch"
    /\ di < NumBatches(dcount, dbatchSize)
    /\ StartSequential(dstartIP, CurrentBatchSize(di, dcount, dbatchSize), "seqdispatch")
    /\ UNCHANGED <<seed, attempts, generated, dcount, dbatchSize, di, messages, derr,
                   dstartIP, outQueue>>

\* Lines 102-125: the generator returned; build the message of batch i and
\* move the start address past the last address of the batch.
DispatchCollectSequential ==
    /\ UNCHANGED <<consumerVars, engineVars, poolVars, lifeVars, scanVars, grabVars, sweepVars, statVars>>
    /\ gpc = "collect"
    /\ gcaller = "seqdispatch"
    /\ IF gresult.err # ""
       THEN /\ derr' = "failed to generate sequential IPs for batch"
            /\ gpc' = "done"
            /\ UNCHANGED <<messages, di, dstartIP>>
       ELSE /\ messages' = Append(messages, [IPs |-> gresult.ips,
                                             BatchID |-> <<"batch-7", di>>,
                                             Count |-> Len(gresult.ips)])
            /\ dstartIP' = IF Len(gresult.ips) > 0
                           THEN incrementIP(gresult.ips[Len(gresult.ips)])
                           ELSE dstartIP
            /\ di' = di + 1
            /\ gpc' = "batches"
            /\ UNCHANGED derr
    /\ UNCHANGED <<seed, gcaller, gcount, attempts, generated, ips, seqIP, seqI,
                   gresult, dcount, dbatchSize, outQueue>>

\* (a loop that leaves its batches at any time)
SomeBatchesBuilt == TRUE

\* Lines 41 and 94: the loop over the batches has ended.
AllBatchesBuilt == ~(di < NumBatches(dcount, dbatchSize))

\* (a publisher that skips a message it cannot publish and goes on)
PublishBatchSkipping(msgs, sent) ==
    SubSeq(msgs, 1, sent) \o SubSeq(msgs, sent + 2, Len(msgs))

\* RabbitMQPublisher.PublishBatch when the publishes of the first sent
\* messages succeed and the next one (if any) fails: what reaches the queue.
PublishBatch(msgs, sent) == SubSeq(msgs, 1, sent)

\* Lines 69-74 (and 127-132): every batch is built; PublishBatch sends the messages in
\* order and stops at the first publish that fails.
DispatchPublish ==
    /\ UNCHANGED <<consumerVars, engineVars, poolVars, lifeVars, scanVars, grabVars, sweepVars, statVars>>
    /\ gpc = "batches"
    /\ AllBatchesBuilt
    /\ \E sent \in 0..Len(messages) :
          /\ outQueue' = outQueue \o PublishBatch(messages, sent)
          /\ derr' = IF sent < Len(messages)
                     THEN "failed to publish messages to queue" ELSE ""
    /\ gpc' = "done"
    /\ UNCHANGED <<seed, gcaller, gcount, attempts, generated, ips, seqIP, seqI,
                   gresult, dcount, dbatchSize, di, messages, dstartIP>>

\* The call has returned; the service takes the next request.
GeneratorIdle ==
    /\ UNCHANGED <<consumerVars, engineVars, poolVars, lifeVars, scanVars, grabVars, sweepVars, statVars>>
    /\ gpc = "done"
    /\ gpc' = "idle"
    /\ gcaller' = "direct"
    /\ gcount' = 0
    /\ attempts' = 0
    /\ generated' = {}
    /\ ips' = <<>>
    /\ seqIP' = NilIP
    /\ seqI' = 0
    /\ gresult' = NoResult
    /\ dcount' = 0
    /\ dbatchSize' = 0
    /\ di' = 0
    /\ messages' = <<>>
    /\ derr' = ""
    /\ dstartIP' = NilIP
    /\ outQueue' = <<>>
    /\ UNCHANGED seed

GeneratorInit ==
    /\ seed = <<0, 0>>
    /\ gpc = "new"
    /\ gcaller = "direct"
    /\ gcount = 0
    /\ attempts = 0
    /\ generated = {}
    /\ ips = <<>>
    /\ seqIP = NilIP
    /\ seqI = 0
    /\ gresult = NoResult
    /\ dcount = 0
    /\ dbatchSize = 0
    /\ di = 0
    /\ messages = <<>>
    /\ derr = ""
    /\ dstartIP = NilIP
    /\ outQueue = <<>>

GeneratorNext ==
    \/ NewIPGeneratorService
    \/ GenerateRandomIPs
    \/ RandomIteration
    \/ RandomReturn
    \/ GenerateSequentialIPs
    \/ SequentialIteration
    \/ SequentialReturn
    \/ GenerateAndPublishIPs
    \/ DispatchGenerate
    \/ DispatchCollect
    \/ GenerateAndPublishSequentialIPs
    \/ DispatchGenerateSequential
    \/ DispatchCollectSequential
    \/ DispatchPublish
    \/ GeneratorIdle

(***************************************************************************)
(* PART 4 - banner: the ZGrab2 worker pool and the scanner's banner wiring *)
(***************************************************************************)
\* p.workers (probe_pool_concurrency)
PoolWorkers == 1
\* goroutines that ask for a banner (one call each)
MaxCallers == 3

Workers == 1..PoolWorkers
Callers == 1..MaxCallers

\* make(chan *BannerGrabJob, workers*2)
QueueCap == PoolWorkers * 2

\* The nil job Shutdown sends as its signal; a real job is named by its caller.
NilJob == 0

ErrQueueTimeout == "job queue timeout"
ErrGrabTimeout == "banner grab timeout"
ErrShutdown == "worker pool shutdown"
PanicClosed == "panic: send on closed channel"

\* (a channel that always takes one more element)
CanSendAlways(q) == TRUE

\* A send on the buffered channel can proceed.
CanSend(q) == Len(q) < QueueCap

\* make(chan *BannerGrabResult, 1)
ResultCap == 1

\* (a Result channel without buffer: a send needs the submitter receiving)
ResultCanSendUnbuffered(c) == spc[c] = "wait"

\* A send on the Result channel of the job of c can proceed: fewer results
\* than the buffer holds have been sent on it.
ResultCanSend(c) == writes[c] < ResultCap

\* ScannerService.GetBanner: which grabber serves the call.
GetBannerTarget(optimized, configured) ==
    IF optimized # "none" THEN optimized
    ELSE IF configured # "none" THEN configured
    ELSE "basic"

\* SetOptimizedBannerGrabber has no caller: the field stays nil.
optimizedGrabber == "none"

\* zgrab2 executions in progress: the pool's busy workers and the calls that
\* run ZGrabBannerService.GetBanner themselves.
InProgress ==
    Cardinality({w \in Workers : wpc[w] = "busy"})
      + Cardinality({c \in Callers : spc[c] = "direct"})

\* The call of c returns result; its job and Result channel are dropped.
Return(c, result) ==
    /\ spc' = [spc EXCEPT ![c] = "returned"]
    /\ sres' = [sres EXCEPT ![c] = result]
    /\ safter' = [safter EXCEPT ![c] = FALSE]
    /\ rready' = rready \ {c}

\* ScannerService.SetBannerGrabber: the field takes the new grabber.
SetBannerGrabber(current, bg) == bg

\* main.go lines 45 and 49: SetBannerGrabber is called with the pool-backed
\* BannerGrabber and then with the plain ZGrabBannerService, which replaces it.
MainBannerWiring == SetBannerGrabber(SetBannerGrabber("none", "pool"), "zgrab")

\* ScanPort found an open port and calls ScannerService.GetBanner.
ScannerGetBanner(c) ==
    /\ UNCHANGED <<consumerVars, engineVars, generatorVars, lifeVars, scanVars, grabVars, sweepVars, statVars>>
    /\ spc[c] = "idle"
    /\ IF GetBannerTarget(optimizedGrabber, bannerGrabber) = "pool"
       THEN /\ spc' = [spc EXCEPT ![c] = "enqueue"]
            /\ safter' = [safter EXCEPT ![c] = ctxDone]
       ELSE /\ spc' = [spc EXCEPT ![c] = "direct"]
            /\ UNCHANGED safter
    /\ UNCHANGED <<bannerGrabber, writes, jobQueue, queueClosed, ctxDone, wpc, wjob, rready,
                   sres, shpc, shi>>

\* ZGrabBannerService.GetBanner run by the caller itself has finished.
DirectFinish(c) ==
    /\ UNCHANGED <<consumerVars, engineVars, generatorVars, lifeVars, scanVars, grabVars, sweepVars, statVars>>
    /\ spc[c] = "direct"
    /\ Return(c, "ok")
    /\ UNCHANGED <<bannerGrabber, writes, jobQueue, queueClosed, ctxDone, wpc, wjob, shpc, shi>>

\* SubmitJob lines 90-97: the job is created (BannerGrabber.getBannerWithZGrab
\* is the caller).
SubmitJob(c) ==
    /\ UNCHANGED <<consumerVars, engineVars, generatorVars, lifeVars, scanVars, grabVars, sweepVars, statVars>>
    /\ spc[c] = "idle"
    /\ spc' = [spc EXCEPT ![c] = "enqueue"]
    /\ safter' = [safter EXCEPT ![c] = ctxDone]
    /\ UNCHANGED <<bannerGrabber, writes, jobQueue, queueClosed, ctxDone, wpc, wjob, rready,
                   sres, shpc, shi>>

\* First select, case p.jobQueue <- job.
SubmitSend(c) ==
    /\ UNCHANGED <<consumerVars, engineVars, generatorVars, lifeVars, scanVars, grabVars, sweepVars, statVars>>
    /\ spc[c] = "enqueue"
    /\ ~queueClosed
    /\ CanSend(jobQueue)
    /\ jobQueue' = Append(jobQueue, c)
    /\ spc' = [spc EXCEPT ![c] = "wait"]
    /\ safter' = [safter EXCEPT ![c] = FALSE]
    /\ UNCHANGED <<bannerGrabber, writes, queueClosed, ctxDone, wpc, wjob, rready, sres, shpc, shi>>

\* First select, case p.jobQueue <- job on the closed channel: the send panics.
SubmitSendClosed(c) ==
    /\ UNCHANGED <<consumerVars, engineVars, generatorVars, lifeVars, scanVars, grabVars, sweepVars, statVars>>
    /\ spc[c] = "enqueue"
    /\ queueClosed
    /\ Return(c, PanicClosed)
    /\ UNCHANGED <<bannerGrabber, writes, jobQueue, queueClosed, ctxDone, wpc, wjob, shpc, shi>>

\* First select, case <-time.After(p.timeout).
SubmitQueueTimeout(c) ==
    /\ UNCHANGED <<consumerVars, engineVars, generatorVars, lifeVars, scanVars, grabVars, sweepVars, statVars>>
    /\ spc[c] = "enqueue"
    /\ Return(c, ErrQueueTimeout)
    /\ UNCHANGED <<bannerGrabber, writes, jobQueue, queueClosed, ctxDone, wpc, wjob, shpc, shi>>

\* First select, case <-p.ctx.Done().
SubmitShutdown(c) ==
    /\ UNCHANGED <<consumerVars, engineVars, generatorVars, lifeVars, scanVars, grabVars, sweepVars, statVars>>
    /\ spc[c] = "enqueue"
    /\ ctxDone
    /\ Return(c, ErrShutdown)
    /\ UNCHANGED <<bannerGrabber, writes, jobQueue, queueClosed, ctxDone, wpc, wjob, shpc, shi>>

\* Second select, case result := <-job.Result.
AwaitResult(c) ==
    /\ UNCHANGED <<consumerVars, engineVars, generatorVars, lifeVars, scanVars, grabVars, sweepVars, statVars>>
    /\ spc[c] = "wait"
    /\ c \in rready
    /\ Return(c, "ok")
    /\ UNCHANGED <<bannerGrabber, writes, jobQueue, queueClosed, ctxDone, wpc, wjob, shpc, shi>>

\* Second select, case <-time.After(p.timeout).
AwaitTimeout(c) ==
    /\ UNCHANGED <<consumerVars, engineVars, generatorVars, lifeVars, scanVars, grabVars, sweepVars, statVars>>
    /\ spc[c] = "wait"
    /\ Return(c, ErrGrabTimeout)
    /\ UNCHANGED <<bannerGrabber, writes, jobQueue, queueClosed, ctxDone, wpc, wjob, shpc, shi>>

\* Second select, case <-p.ctx.Done().
AwaitShutdown(c) ==
    /\ UNCHANGED <<consumerVars, engineVars, generatorVars, lifeVars, scanVars, grabVars, sweepVars, statVars>>
    /\ spc[c] = "wait"
    /\ ctxDone
    /\ Return(c, ErrShutdown)
    /\ UNCHANGED <<bannerGrabber, writes, jobQueue, queueClosed, ctxDone, wpc, wjob, shpc, shi>>

\* worker, case job := <-p.jobQueue: nil ends the worker, a job is executed.
WorkerReceive(w) ==
    /\ UNCHANGED <<consumerVars, engineVars, generatorVars, lifeVars, scanVars, grabVars, sweepVars, statVars>>
    /\ wpc[w] = "select"
    /\ jobQueue # <<>>
    /\ jobQueue' = Tail(jobQueue)
    /\ IF Head(jobQueue) = NilJob
       THEN /\ wpc' = [wpc EXCEPT ![w] = "exited"]
            /\ UNCHANGED wjob
       ELSE /\ wpc' = [wpc EXCEPT ![w] = "busy"]
            /\ wjob' = [wjob EXCEPT ![w] = Head(jobQueue)]
    /\ UNCHANGED <<bannerGrabber, writes, queueClosed, ctxDone, rready, spc, sres, safter,
                   shpc, shi>>

\* worker, case <-p.ctx.Done().
WorkerCtxDone(w) ==
    /\ UNCHANGED <<consumerVars, engineVars, generatorVars, lifeVars, scanVars, grabVars, sweepVars, statVars>>
    /\ wpc[w] = "select"
    /\ ctxDone
    /\ wpc' = [wpc EXCEPT ![w] = "exited"]
    /\ UNCHANGED <<bannerGrabber, writes, jobQueue, queueClosed, ctxDone, wjob, rready,
                   spc, sres, safter, shpc, shi>>

\* worker lines 70-80: zgrab2 has run; the result goes to job.Result (buffered,
\* the send never blocks) and the worker selects again.  A result whose
\* submitter has already returned is never read.
WorkerFinish(w) ==
    /\ UNCHANGED <<consumerVars, engineVars, generatorVars, lifeVars, scanVars, grabVars, sweepVars, statVars>>
    /\ wpc[w] = "busy"
    /\ ResultCanSend(wjob[w])
    /\ writes' = [writes EXCEPT ![wjob[w]] = @ + 1]
    /\ rready' = IF spc[wjob[w]] = "wait" THEN rready \cup {wjob[w]} ELSE rready
    /\ wjob' = [wjob EXCEPT ![w] = NilJob]
    /\ wpc' = [wpc EXCEPT ![w] = "select"]
    /\ UNCHANGED <<bannerGrabber, jobQueue, queueClosed, ctxDone, spc, sres,
                   safter, shpc, shi>>

\* Shutdown line 122: p.cancel().
Shutdown ==
    /\ UNCHANGED <<consumerVars, engineVars, generatorVars, lifeVars, scanVars, grabVars, sweepVars, statVars>>
    /\ shpc = "none"
    /\ ctxDone' = TRUE
    /\ shpc' = "sending"
    /\ shi' = 0
    /\ UNCHANGED <<bannerGrabber, writes, jobQueue, queueClosed, wpc, wjob, rready, spc, sres, safter>>

\* Shutdown lines 125-127: p.jobQueue <- nil, a plain blocking send.
ShutdownSend ==
    /\ UNCHANGED <<consumerVars, engineVars, generatorVars, lifeVars, scanVars, grabVars, sweepVars, statVars>>
    /\ shpc = "sending"
    /\ shi < PoolWorkers
    /\ CanSend(jobQueue)
    /\ jobQueue' = Append(jobQueue, NilJob)
    /\ shi' = shi + 1
    /\ UNCHANGED <<bannerGrabber, writes, queueClosed, ctxDone, wpc, wjob, rready, spc, sres, safter, shpc>>

\* Shutdown lines 130-131: p.wg.Wait() returns when every worker has exited,
\* then close(p.jobQueue).
ShutdownReturn ==
    /\ UNCHANGED <<consumerVars, engineVars, generatorVars, lifeVars, scanVars, grabVars, sweepVars, statVars>>
    /\ shpc = "sending"
    /\ ~(shi < PoolWorkers)
    /\ \A w \in Workers : wpc[w] = "exited"
    /\ queueClosed' = TRUE
    /\ shpc' = "returned"
    /\ UNCHANGED <<bannerGrabber, writes, jobQueue, ctxDone, wpc, wjob, rready, spc,
                   sres, safter, shi>>

\* main has built the pool-backed grabber (the workers run) and wired the
\* scanner (main.go lines 40-49).
PoolInit ==
    /\ bannerGrabber = MainBannerWiring
    /\ jobQueue = <<>>
    /\ queueClosed = FALSE
    /\ ctxDone = FALSE
    /\ wpc = [w \in Workers |-> "select"]
    /\ wjob = [w \in Workers |-> NilJob]
    /\ rready = {}
    /\ writes = [c \in Callers |-> 0]
    /\ spc = [c \in Callers |-> "idle"]
    /\ sres = [c \in Callers |-> ""]
    /\ safter = [c \in Callers |-> FALSE]
    /\ shpc = "none"
    /\ shi = 0

PoolNext ==
    \/ \E c \in Callers : ScannerGetBanner(c)
    \/ \E c \in Callers : DirectFinish(c)
    \/ \E c \in Callers : SubmitJob(c)
    \/ \E c \in Callers : SubmitSend(c)
    \/ \E c \in Callers : SubmitSendClosed(c)
    \/ \E c \in Callers : SubmitQueueTimeout(c)
    \/ \E c \in Callers : SubmitShutdown(c)
    \/ \E c \in Callers : AwaitResult(c)
    \/ \E c \in Callers : AwaitTimeout(c)
    \/ \E c \in Callers : AwaitShutdown(c)
    \/ \E w \in Workers : WorkerReceive(w)
    \/ \E w \in Workers : WorkerCtxDone(w)
    \/ \E w \in Workers : WorkerFinish(w)
    \/ Shutdown
    \/ ShutdownSend
    \/ ShutdownReturn

\* The timers of SubmitJob's two selects fire, a started zgrab2 run ends (it
\* runs under a timeout), and runnable goroutines are scheduled.
PoolFairness ==
    /\ \A c \in Callers : WF_vars(SubmitQueueTimeout(c))
    /\ \A c \in Callers : WF_vars(AwaitTimeout(c))
    /\ \A w \in Workers : WF_vars(WorkerReceive(w) \/ WorkerCtxDone(w))
    /\ \A w \in Workers : WF_vars(WorkerFinish(w))
    /\ WF_vars(ShutdownSend)
    /\ WF_vars(ShutdownReturn)

(***************************************************************************)
(* PART 5 - port-scanner: engine start/stop and the shutdown sequence of   *)
(* main                                                                    *)
(***************************************************************************)
\* StartScanning / StopScanning calls made besides the ones of main
MaxLifecycleCalls == 3

ErrAlreadyRunning == "scanning engine is already running"

ErrConsume == "failed to start consuming messages"

AlreadyRunningNever(running) == FALSE

\* if s.isRunning
AlreadyRunning(running) == running

\* r.channel.Consume: registers one more consumer on an open channel and fails
\* on a closed one
Consume(open, registered) ==
    [err |-> ~open, consumers |-> IF open THEN registered + 1 ELSE registered]

\* RabbitMQManager.Close: closes the channel (which cancels its consumers) and
\* the connection
Close ==
    /\ channelOpen' = FALSE
    /\ connOpen' = FALSE
    /\ consumers' = 0

\* The body of StartScanning, run under s.mu
StartScanningBody ==
    IF AlreadyRunning(isRunning)
    THEN /\ startResult' = ErrAlreadyRunning
         /\ UNCHANGED <<isRunning, consumers>>
    ELSE LET c == Consume(channelOpen, consumers) IN
         IF c.err
         THEN /\ startResult' = ErrConsume
              /\ UNCHANGED <<isRunning, consumers>>
         ELSE /\ startResult' = "ok"
              /\ consumers' = c.consumers
              /\ isRunning' = TRUE

\* The body of StopScanning, run under s.mu
StopScanningBody ==
    IF ~isRunning
    THEN UNCHANGED <<isRunning, channelOpen, connOpen, consumers>>
    ELSE /\ Close
         /\ isRunning' = FALSE

\* A client of the engine calls StartScanning
StartScanning ==
    /\ mpc = "serving"
    /\ lcalls < MaxLifecycleCalls
    /\ lcalls' = lcalls + 1
    /\ StartScanningBody
    /\ UNCHANGED <<channelOpen, connOpen, scanning, mpc, deadline, storeOpen>>
    /\ UNCHANGED <<consumerVars, engineVars, generatorVars, poolVars, scanVars, grabVars, sweepVars, statVars>>

\* A client of the engine calls StopScanning
StopScanning ==
    /\ mpc = "serving"
    /\ lcalls < MaxLifecycleCalls
    /\ lcalls' = lcalls + 1
    /\ StopScanningBody
    /\ UNCHANGED <<scanning, startResult, mpc, deadline, storeOpen>>
    /\ UNCHANGED <<consumerVars, engineVars, generatorVars, poolVars, scanVars, grabVars, sweepVars, statVars>>

\* The consumer goroutine of ConsumeIPs receives a delivery and starts to scan
\* its addresses
ConsumerTakesDelivery ==
    /\ consumers > 0
    /\ channelOpen
    /\ ~scanning
    /\ scanning' = TRUE
    /\ UNCHANGED <<isRunning, channelOpen, connOpen, consumers, startResult,
                   lcalls, mpc, deadline, storeOpen>>
    /\ UNCHANGED <<consumerVars, engineVars, generatorVars, poolVars, scanVars, grabVars, sweepVars, statVars>>

\* handleMessage returns
ConsumerFinishesDelivery ==
    /\ scanning
    /\ scanning' = FALSE
    /\ UNCHANGED <<isRunning, channelOpen, connOpen, consumers, startResult,
                   lcalls, mpc, deadline, storeOpen>>
    /\ UNCHANGED <<consumerVars, engineVars, generatorVars, poolVars, scanVars, grabVars, sweepVars, statVars>>

\* main: scanEngine.StartScanning(), fatal on an error
MainStartScanning ==
    /\ mpc = "init"
    /\ StartScanningBody
    /\ mpc' = IF startResult' = "ok" THEN "serving" ELSE "exited"
    /\ UNCHANGED <<channelOpen, connOpen, scanning, lcalls, deadline, storeOpen>>
    /\ UNCHANGED <<consumerVars, engineVars, generatorVars, poolVars, scanVars, grabVars, sweepVars, statVars>>

\* main: <-quit
MainSignal ==
    /\ mpc = "serving"
    /\ mpc' = "stop"
    /\ UNCHANGED <<isRunning, channelOpen, connOpen, consumers, scanning,
                   startResult, lcalls, deadline, storeOpen>>
    /\ UNCHANGED <<consumerVars, engineVars, generatorVars, poolVars, scanVars, grabVars, sweepVars, statVars>>

\* main: scanEngine.StopScanning()
MainStopScanning ==
    /\ mpc = "stop"
    /\ StopScanningBody
    /\ mpc' = "deadline"
    /\ UNCHANGED <<scanning, startResult, lcalls, deadline, storeOpen>>
    /\ UNCHANGED <<consumerVars, engineVars, generatorVars, poolVars, scanVars, grabVars, sweepVars, statVars>>

\* main: context.WithTimeout(30s) and the call of server.Shutdown(ctx)
MainServerShutdown ==
    /\ mpc = "deadline"
    /\ deadline' = "running"
    /\ mpc' = "shutdown"
    /\ UNCHANGED <<isRunning, channelOpen, connOpen, consumers, scanning,
                   startResult, lcalls, storeOpen>>
    /\ UNCHANGED <<consumerVars, engineVars, generatorVars, poolVars, scanVars, grabVars, sweepVars, statVars>>

\* main: the context expires inside server.Shutdown; log.Fatal exits the
\* process without running the deferred calls
MainServerShutdownTimeout ==
    /\ mpc = "shutdown"
    /\ deadline' = "expired"
    /\ mpc' = "exited"
    /\ UNCHANGED <<isRunning, channelOpen, connOpen, consumers, scanning,
                   startResult, lcalls, storeOpen>>
    /\ UNCHANGED <<consumerVars, engineVars, generatorVars, poolVars, scanVars, grabVars, sweepVars, statVars>>

\* main: server.Shutdown returned nil; main returns and its deferred calls
\* run, last one first
MainServerShutdownDone ==
    /\ mpc = "shutdown"
    /\ mpc' = "deferred"
    /\ UNCHANGED <<isRunning, channelOpen, connOpen, consumers, scanning,
                   startResult, lcalls, deadline, storeOpen>>
    /\ UNCHANGED <<consumerVars, engineVars, generatorVars, poolVars, scanVars, grabVars, sweepVars, statVars>>

\* main: defer queueManager.Close()
MainDeferredQueueClose ==
    /\ mpc = "deferred"
    /\ Close
    /\ mpc' = "closestore"
    /\ UNCHANGED <<isRunning, scanning, startResult, lcalls, deadline, storeOpen>>
    /\ UNCHANGED <<consumerVars, engineVars, generatorVars, poolVars, scanVars, grabVars, sweepVars, statVars>>

\* main: defer dbManager.Close()
MainDeferredStoreClose ==
    /\ mpc = "closestore"
    /\ storeOpen' = FALSE
    /\ mpc' = "exited"
    /\ UNCHANGED <<isRunning, channelOpen, connOpen, consumers, scanning,
                   startResult, lcalls, deadline>>
    /\ UNCHANGED <<consumerVars, engineVars, generatorVars, poolVars, scanVars, grabVars, sweepVars, statVars>>

\* NewRabbitMQManager, NewMongoDBManager and NewScanEngineService have run
LifecycleInit ==
    /\ isRunning = FALSE
    /\ channelOpen = TRUE
    /\ connOpen = TRUE
    /\ consumers = 0
    /\ scanning = FALSE
    /\ startResult = ""
    /\ lcalls = 0
    /\ mpc = "init"
    /\ deadline = "none"
    /\ storeOpen = TRUE

LifecycleNext ==
    \/ StartScanning
    \/ StopScanning
    \/ ConsumerTakesDelivery
    \/ ConsumerFinishesDelivery
    \/ MainStartScanning
    \/ MainSignal
    \/ MainStopScanning
    \/ MainServerShutdown
    \/ MainServerShutdownTimeout
    \/ MainServerShutdownDone
    \/ MainDeferredQueueClose
    \/ MainDeferredStoreClose

(***************************************************************************)
(* PART 6 - port-scanner: ScannerService.ScanIP called for one address     *)
(***************************************************************************)
\* The addresses a scan is requested for: a public one, one of 240.0.0.0/4,
\* one with a field above 255 and one with three fields.
ScanTargets == {<<1, 1, 1, 1>>, <<240, 0, 0, 1>>, <<999, 1, 1, 1>>, <<1, 1, 1>>}

\* The answers of the network to a requested scan.
ScanAnswers ==
    [ping : PingRuns,
     opensAt : [PortSet -> 0..(MaxRetries + 1)],
     banner : [PortSet -> BannerOutcomes]]

NoScan == [ip |-> <<>>, pingOn |-> FALSE]

\* Handler.ScanIP (and the queue consumer's scan handler): one call of
\* ScannerService.ScanIP, to its return.
ScanIPCall ==
    /\ scanPc = "idle"
    /\ \E ip \in ScanTargets, pingOn \in BOOLEAN, net \in ScanAnswers :
          /\ scanReq' = [ip |-> ip, pingOn |-> pingOn]
          /\ scanNet' = net
          /\ scanOut' = ScanIP(ip, pingOn, "", workerID, net)
    /\ scanPc' = "returned"
    /\ UNCHANGED <<consumerVars, engineVars, generatorVars, poolVars, lifeVars, grabVars, sweepVars, statVars>>

\* The caller has answered the request; the scanner takes the next one.
ScanIPDone ==
    /\ scanPc = "returned"
    /\ scanPc' = "idle"
    /\ scanReq' = NoScan
    /\ scanNet' = <<>>
    /\ scanOut' = <<>>
    /\ UNCHANGED <<consumerVars, engineVars, generatorVars, poolVars, lifeVars, grabVars, sweepVars, statVars>>

ScannerInit ==
    /\ scanPc = "idle"
    /\ scanReq = NoScan
    /\ scanNet = <<>>
    /\ scanOut = <<>>

ScannerNext ==
    \/ ScanIPCall
    \/ ScanIPDone

(***************************************************************************)
(* PART 7 - banner: BannerGrabber.getBannerWithZGrab, the zgrab2 output    *)
(* parser and the line-read fallback                                       *)
(***************************************************************************)
\* documents zgrab2 writes for one job, at most
MaxDocs == 2

\* A key that a JSON object does not hold.
NoKey == [absent |-> TRUE]

\* A nil *domain.BannerInfo.
NilInfo == [nil |-> TRUE]

\* Texts a service sends: the length after trimming, and what the version
\* patterns of extractVersionFromBanner find in the text.
Texts ==
    {[len |-> 0, version |-> ""], [len |-> 8, version |-> ""],
     [len |-> 12, version |-> ""], [len |-> 12, version |-> "8.9"]}

\* The "data" object of a zgrab2 document for port 22 (modules ssh, banner).
DataObjects ==
    [banner : {NoKey} \cup Texts,
     ssh : {NoKey, [server_banner |-> NoKey],
            [server_banner |-> [len |-> 12, version |-> "8.9"]]}]

\* The lines of a zgrab2 output: a document, a line that is not JSON, or a
\* blank line.
MalformedLine == [malformed |-> TRUE]
BlankLine == [blank |-> TRUE]
OutputLines == DataObjects \cup {MalformedLine, BlankLine}

RECURSIVE SeqsUpTo(_, _)
SeqsUpTo(S, n) ==
    IF n = 0 THEN {<<>>}
    ELSE SeqsUpTo(S, n - 1) \cup {Append(q, x) : q \in SeqsUpTo(S, n - 1), x \in S}

\* What one line read of FallbackBannerGrab meets: the dial fails, or the
\* connection gives a line or none.
LineReads ==
    {[dialErr |-> TRUE, line |-> NoKey], [dialErr |-> FALSE, line |-> NoKey],
     [dialErr |-> FALSE, line |-> [len |-> 12, version |-> "8.9"]]}

\* The ports a banner is asked for (both are common service ports).
ProbePorts == {22, 80}

\* IdentifyServiceByPort (zgrab.go lines 787-836).
IdentifyServiceByPort(port) ==
    IF port = 22 THEN "ssh" ELSE IF port = 80 THEN "http" ELSE "unknown"

\* identifyService: a module key decides, else the port table.
identifyService(port, data) ==
    IF data.ssh # NoKey THEN "ssh" ELSE IdentifyServiceByPort(port)

\* json.Marshal(data) for an object without banner: "{}" or {"ssh":{}}.
JsonText(data) == [len |-> IF data.ssh = NoKey THEN 2 ELSE 10, version |-> ""]

extractRawBanner(data) ==
    IF data.banner # NoKey THEN data.banner
    ELSE IF data.ssh # NoKey /\ data.ssh.server_banner # NoKey
    THEN data.ssh.server_banner
    ELSE JsonText(data)

extractSSHVersion(sshData) ==
    IF sshData.server_banner # NoKey THEN sshData.server_banner.version ELSE ""

extractVersion(data) ==
    IF data.ssh # NoKey /\ extractSSHVersion(data.ssh) # ""
    THEN extractSSHVersion(data.ssh)
    ELSE IF data.banner # NoKey THEN data.banner.version
    ELSE ""

determineConfidence(data) ==
    IF data.ssh # NoKey THEN "zgrab2"
    ELSE IF data.banner # NoKey /\ data.banner.len > 5 THEN "banner"
    ELSE "port"

\* len(result.Data): the number of keys of the object.
DataSize(data) ==
    (IF data.banner # NoKey THEN 1 ELSE 0) + (IF data.ssh # NoKey THEN 1 ELSE 0)

analyzeZGrabResult(data, port) ==
    [RawBanner |-> extractRawBanner(data),
     Service |-> identifyService(port, data),
     Protocol |-> "tcp",
     Version |-> extractVersion(data),
     Confidence |-> determineConfidence(data),
     Metadata |-> data]

calculateResultPriority(bannerInfo) ==
    (IF bannerInfo.Confidence = "zgrab2" THEN 100
      ELSE IF bannerInfo.Confidence = "banner" THEN 50
      ELSE IF bannerInfo.Confidence = "port" THEN 10
      ELSE 0)
    + (IF bannerInfo.Version # "" THEN 20 ELSE 0)
    + (IF bannerInfo.RawBanner.len > 10 THEN 10 ELSE 0)
    + (IF DataSize(bannerInfo.Metadata) > 0 THEN 5 ELSE 0)

\* (a comparison that lets a later document of equal priority win)
ReplacesBestOnTie(priority, highestPriority) == priority >= highestPriority

\* parseZGrabOutput line 206: the test that replaces the best result.
ReplacesBest(priority, highestPriority) == priority > highestPriority

\* parseZGrabOutput lines 188-209: the loop over the lines from index k on.
RECURSIVE BestResult(_, _, _, _, _)
BestResult(lines, port, k, bestResult, highestPriority) ==
    IF k > Len(lines) THEN bestResult
    ELSE IF lines[k] = BlankLine \/ lines[k] = MalformedLine
    THEN BestResult(lines, port, k + 1, bestResult, highestPriority)
    ELSE LET bannerInfo == analyzeZGrabResult(lines[k], port)
             priority == calculateResultPriority(bannerInfo)
         IN  IF ReplacesBest(priority, highestPriority)
             THEN BestResult(lines, port, k + 1, bannerInfo, priority)
             ELSE BestResult(lines, port, k + 1, bestResult, highestPriority)

\* parseZGrabOutput: the best document, or the whole output as the banner of
\* an unknown service when no line gave a result; the error is always nil.
parseZGrabOutput(output, port) ==
    LET bestResult == BestResult(output, port, 1, NilInfo, -1)
    IN  IF bestResult = NilInfo
        THEN [info |-> [RawBanner |-> [output |-> output], Service |-> "unknown",
                        Protocol |-> "tcp", Version |-> "",
                        Confidence |-> "port", Metadata |-> NoKey],
              err |-> ""]
        ELSE [info |-> bestResult, err |-> ""]

\* FallbackBannerGrab: connect, write CRLF, read one line.
FallbackBannerGrab(read, port) ==
    IF read.dialErr THEN [info |-> NilInfo, err |-> "connection refused"]
    ELSE IF read.line # NoKey
    THEN [info |-> [RawBanner |-> read.line, Service |-> IdentifyServiceByPort(port),
                    Protocol |-> "tcp", Version |-> read.line.version,
                    Confidence |-> "banner", Metadata |-> NoKey],
          err |-> ""]
    ELSE [info |-> [RawBanner |-> [len |-> 0, version |-> ""],
                    Service |-> IdentifyServiceByPort(port),
                    Protocol |-> "tcp", Version |-> "",
                    Confidence |-> "port", Metadata |-> NoKey],
          err |-> "no banner received"]

\* ZGrabBannerService.GetBanner, run by a pool worker: zgrab2 is executed and
\* its output parsed; an execution error leads to the line read.
ZGrabGetBanner(in) ==
    IF in.execErr # ""
    THEN FallbackBannerGrab(in.reads[1], in.port) @@ [lineReads |-> 1]
    ELSE parseZGrabOutput(in.output, in.port) @@ [lineReads |-> 0]

\* BannerGrabber.getBannerWithZGrab: the job goes to the pool; a SubmitJob
\* error or a result with an error leads to getBannerBasic, a line read of
\* its own.
getBannerWithZGrab(in) ==
    IF in.submitErr # ""
    THEN FallbackBannerGrab(in.reads[2], in.port) @@ [lineReads |-> 1]
    ELSE LET result == ZGrabGetBanner(in)
         IN  IF result.err # ""
             THEN FallbackBannerGrab(in.reads[2], in.port)
                    @@ [lineReads |-> result.lineReads + 1]
             ELSE result

\* What the pool, zgrab2 and the service may answer during one request.
GrabInputs ==
    [port : ProbePorts,
     submitErr : {"", ErrGrabTimeout, ErrShutdown},
     execErr : {"", "zgrab2 execution failed"},
     output : SeqsUpTo(OutputLines, MaxDocs),
     reads : [1..2 -> LineReads]]

\* BannerGrabber.GetBanner for a common service port: one call of
\* getBannerWithZGrab, to its return.
GetBannerCall ==
    /\ grabPc = "idle"
    /\ \E in \in GrabInputs :
          /\ grabIn' = in
          /\ grabOut' = getBannerWithZGrab(in)
    /\ grabPc' = "returned"
    /\ UNCHANGED <<consumerVars, engineVars, generatorVars, poolVars, lifeVars,
                   scanVars, sweepVars, statVars>>

\* The caller has taken the banner; the coordinator serves the next request.
GetBannerDone ==
    /\ grabPc = "returned"
    /\ grabPc' = "idle"
    /\ grabIn' = <<>>
    /\ grabOut' = <<>>
    /\ UNCHANGED <<consumerVars, engineVars, generatorVars, poolVars, lifeVars,
                   scanVars, sweepVars, statVars>>

GrabInit ==
    /\ grabPc = "idle"
    /\ grabIn = <<>>
    /\ grabOut = <<>>

GrabNext ==
    \/ GetBannerCall
    \/ GetBannerDone

(***************************************************************************)
(* PART 8 - port-scanner: ScannerService.ScanPorts, goroutine by goroutine *)
(***************************************************************************)
\* s.config.Concurrency (the default is 100)
SweepConcurrency == 2

\* The ports argument of the call.
SweepPorts == <<22, 80, 443>>

SweepPortSet == {SweepPorts[k] : k \in 1..Len(SweepPorts)}

\* The answers of the network to the connects of one call: each port accepts
\* at once or never.
SweepAnswers ==
    [opensAt : [SweepPortSet -> {0, 1}], banner : [SweepPortSet -> {"banner"}]]

\* (a semaphore that always takes one more element)
SemaphoreUnbounded(n) == TRUE

\* semaphore <- struct{}{} can proceed: the channel has a free place.
SemaphoreCanSend(n) == n < SweepConcurrency

\* ScanPorts lines 101-128: the locals are set up and one goroutine per port
\* is started; the caller goes on to wg.Wait().
ScanPortsCall ==
    /\ sweepPc = "idle"
    /\ \E net \in SweepAnswers : sweepNet' = net
    /\ portPc' = [p \in SweepPortSet |-> "start"]
    /\ semaphore' = 0
    /\ results' = <<>>
    /\ sweepPc' = "waiting"
    /\ UNCHANGED <<consumerVars, engineVars, generatorVars, poolVars, lifeVars,
                   scanVars, grabVars, statVars>>

\* The goroutine of port p, line 114: it acquires the semaphore.
PortAcquire(p) ==
    /\ sweepPc = "waiting"
    /\ portPc[p] = "start"
    /\ SemaphoreCanSend(semaphore)
    /\ semaphore' = semaphore + 1
    /\ portPc' = [portPc EXCEPT ![p] = "scanning"]
    /\ UNCHANGED <<sweepPc, sweepNet, results>>
    /\ UNCHANGED <<consumerVars, engineVars, generatorVars, poolVars, lifeVars,
                   scanVars, grabVars, statVars>>

\* The goroutine of port p, lines 118-126 and the deferred calls: the port is
\* scanned with retries, a result without error is appended under the mutex,
\* the semaphore is released and wg.Done() is called.
PortFinish(p) ==
    /\ sweepPc = "waiting"
    /\ portPc[p] = "scanning"
    /\ LET r == scanPortWithRetry(p, sweepNet, 0)
       IN  results' = IF r.err # "" THEN results ELSE Append(results, r.port)
    /\ semaphore' = semaphore - 1
    /\ portPc' = [portPc EXCEPT ![p] = "done"]
    /\ UNCHANGED <<sweepPc, sweepNet>>
    /\ UNCHANGED <<consumerVars, engineVars, generatorVars, poolVars, lifeVars,
                   scanVars, grabVars, statVars>>

\* ScanPorts lines 130-132: wg.Wait() returns when every goroutine has called
\* wg.Done(); the call returns results.
ScanPortsReturn ==
    /\ sweepPc = "waiting"
    /\ \A p \in SweepPortSet : portPc[p] = "done"
    /\ sweepPc' = "returned"
    /\ UNCHANGED <<sweepNet, portPc, semaphore, results>>
    /\ UNCHANGED <<consumerVars, engineVars, generatorVars, poolVars, lifeVars,
                   scanVars, grabVars, statVars>>

\* ScanIP has taken the list; the next call may come.
ScanPortsDone ==
    /\ sweepPc = "returned"
    /\ sweepPc' = "idle"
    /\ sweepNet' = <<>>
    /\ portPc' = [p \in SweepPortSet |-> "done"]
    /\ semaphore' = 0
    /\ results' = <<>>
    /\ UNCHANGED <<consumerVars, engineVars, generatorVars, poolVars, lifeVars,
                   scanVars, grabVars, statVars>>

SweepInit ==
    /\ sweepPc = "idle"
    /\ sweepNet = <<>>
    /\ portPc = [p \in SweepPortSet |-> "done"]
    /\ semaphore = 0
    /\ results = <<>>

SweepNext ==
    \/ ScanPortsCall
    \/ \E p \in SweepPortSet : PortAcquire(p)
    \/ \E p \in SweepPortSet : PortFinish(p)
    \/ ScanPortsReturn
    \/ ScanPortsDone

(***************************************************************************)
(* PART 9 - port-scanner: ScanStats.UpdateStats called by concurrent       *)
(* goroutines (processMessage workers and HTTP scan handlers)              *)
(***************************************************************************)
\* goroutines that record scans
MaxUpdaters == 2
\* UpdateStats calls made before the model stops
MaxRecorded == 3

Updaters == 1..MaxUpdaters

NewScanStats == [TotalScanned |-> 0, SuccessfulScans |-> 0, FailedScans |-> 0]

\* The counter UpdateStats increments second, by the Status of the result.
OutcomeCounter(status) ==
    IF status = ScanStatusCompleted THEN "SuccessfulScans" ELSE "FailedScans"

\* UpdateStats calls begun so far.
UpdatesBegun == recorded + Cardinality({u \in Updaters : updPc[u] # "idle"})

\* A goroutine has a scan result and calls UpdateStats (processMessage line
\* 110, Handler.ScanIP line 174); no lock is taken.  ss.TotalScanned++, the
\* load.
UpdateLoadTotal(u) ==
    /\ updPc[u] = "idle"
    /\ UpdatesBegun < MaxRecorded
    /\ \E status \in {ScanStatusCompleted, ScanStatusFailed} :
          updResult' = [updResult EXCEPT ![u] = status]
    /\ updReg' = [updReg EXCEPT ![u] = counters.TotalScanned]
    /\ updPc' = [updPc EXCEPT ![u] = "total"]
    /\ UNCHANGED <<counters, recorded, view>>
    /\ UNCHANGED <<consumerVars, engineVars, generatorVars, poolVars, lifeVars,
                   scanVars, grabVars, sweepVars>>

\* ss.TotalScanned++, the store; then the load of ss.SuccessfulScans++ or
\* ss.FailedScans++.
UpdateStoreTotal(u) ==
    /\ updPc[u] = "total"
    /\ counters' = [counters EXCEPT !.TotalScanned = updReg[u] + 1]
    /\ updReg' = [updReg EXCEPT ![u] = counters[OutcomeCounter(updResult[u])]]
    /\ updPc' = [updPc EXCEPT ![u] = "outcome"]
    /\ UNCHANGED <<updResult, recorded, view>>
    /\ UNCHANGED <<consumerVars, engineVars, generatorVars, poolVars, lifeVars,
                   scanVars, grabVars, sweepVars>>

\* ss.SuccessfulScans++ or ss.FailedScans++, the store; UpdateStats returns.
UpdateStoreOutcome(u) ==
    /\ updPc[u] = "outcome"
    /\ counters' = [counters EXCEPT ![OutcomeCounter(updResult[u])] = updReg[u] + 1]
    /\ updPc' = [updPc EXCEPT ![u] = "idle"]
    /\ updReg' = [updReg EXCEPT ![u] = 0]
    /\ updResult' = [updResult EXCEPT ![u] = ""]
    /\ recorded' = recorded + 1
    /\ UNCHANGED view
    /\ UNCHANGED <<consumerVars, engineVars, generatorVars, poolVars, lifeVars,
                   scanVars, grabVars, sweepVars>>

\* GET /stats: the handler reads the counters through GetScanStats (no lock
\* is taken).
GetStats ==
    /\ view # counters
    /\ view' = counters
    /\ UNCHANGED <<counters, updPc, updReg, updResult, recorded>>
    /\ UNCHANGED <<consumerVars, engineVars, generatorVars, poolVars, lifeVars,
                   scanVars, grabVars, sweepVars>>

StatInit ==
    /\ counters = NewScanStats
    /\ updPc = [u \in Updaters |-> "idle"]
    /\ updReg = [u \in Updaters |-> 0]
    /\ updResult = [u \in Updaters |-> ""]
    /\ recorded = 0
    /\ view = NewScanStats

StatNext ==
    \/ \E u \in Updaters : UpdateLoadTotal(u)
    \/ \E u \in Updaters : UpdateStoreTotal(u)
    \/ \E u \in Updaters : UpdateStoreOutcome(u)
    \/ GetStats

(***************************************************************************)
(* Specifications                                                          *)
(***************************************************************************)
Init ==
    /\ ConsumerInit
    /\ EngineInit
    /\ GeneratorInit
    /\ PoolInit
    /\ LifecycleInit
    /\ ScannerInit
    /\ GrabInit
    /\ SweepInit
    /\ StatInit

SpecConsumer == Init /\ [][ConsumerNext]_vars

SpecEngine == Init /\ [][EngineNext]_vars

SpecGenerator == Init /\ [][GeneratorNext]_vars

SpecPool == Init /\ [][PoolNext]_vars

SpecPoolFair == SpecPool /\ PoolFairness

SpecLifecycle == Init /\ [][LifecycleNext]_vars

SpecScanner == Init /\ [][ScannerNext]_vars

SpecGrab == Init /\ [][GrabNext]_vars

SpecSweep == Init /\ [][SweepNext]_vars

SpecStats == Init /\ [][StatNext]_vars

(***************************************************************************)
(* Properties                                                              *)
(***************************************************************************)
\* Number of calls one loop-iteration entry made to a sink.
CallsTo(e, sink) == Cardinality({k \in 1..Len(e.calls) : e.calls[k].sink = sink})

Attempted(e, sink) == CallsTo(e, sink) > 0

\* The scan of the entry found at least one open port.
FoundOpenPorts(e) ==
    \E k \in 1..Len(e.calls) :
        /\ e.calls[k].sink = "scan_result_queue"
        /\ Len(GetOpenPorts(e.calls[k].payload)) > 0

\* handleMessage has run its loop to the end and returned nil.
BatchProcessed == cpc = "returned" /\ ~herr

\* processMessage has returned.
EngineBatchProcessed == epc = "idle" /\ processCalls > 0

\* C1: for every IP of a processed batch exactly one enrichment record is
\* emitted (one publish on enrichment_queue), be the host up, down or the scan
\* failed; a batch of k addresses yields k enrichment records.  Stated for the
\* queue consumer's handler and for the engine's processMessage.
C1_OneEnrichmentPerIP ==
    /\ BatchProcessed =>
          /\ Len(ipLog) = Len(message.IPs)
          /\ \A i \in 1..Len(ipLog) :
                ipLog[i].ip # <<>> => CallsTo(ipLog[i], "enrichment_queue") = 1
    /\ EngineBatchProcessed =>
          \A i \in DOMAIN elog : CallsTo(elog[i], "enrichment_queue") = 1

\* C2: for a scanned IP, the scan-result, enrichment and (when ports are
\* open) service-analysis publishes and the persistence write are each
\* attempted, whatever the outcome of the others.
C2_SinksIsolated ==
    \A i \in 1..Len(ipLog) :
        ipLog[i].scanned =>
            /\ Attempted(ipLog[i], "scan_result_queue")
            /\ Attempted(ipLog[i], "enrichment_queue")
            /\ (FoundOpenPorts(ipLog[i]) => Attempted(ipLog[i], "service_analysis_queue"))
            /\ (ipLog[i].db => Attempted(ipLog[i], "mongodb"))

\* C3: a delivery whose body cannot be decoded is acknowledged, not requeued,
\* and so never delivered a second time.
C3_MalformedAckedAndDropped ==
    (delivery.tag # 0 /\ delivery.body.kind = "malformed") =>
        /\ deliveryCount[delivery.id] = 1
        /\ nacks = 0
        /\ (cpc = "recv" => acks = 1)

\* C4: each delivery gets exactly one acknowledgement decision: never an ack
\* and a nack, never two of either, and one once its handling is over.
C4_ExactlyOneDecision ==
    /\ acks + nacks <= 1
    /\ (cpc = "recv" /\ delivery.tag # 0) => acks + nacks = 1

FailedScanReported(e) ==
    (e.scanned /\ e.err # "") =>
        /\ \E k \in 1..Len(e.calls) :
              /\ e.calls[k].sink = "scan_result_queue"
              /\ e.calls[k].payload.Status = ScanStatusFailed
              /\ e.calls[k].payload.Error # ""
        /\ \E k \in 1..Len(e.calls) :
              /\ e.calls[k].sink = "enrichment_queue"
              /\ e.calls[k].payload.is_up = FALSE

\* C6: when the scan of an IP fails the other IPs of the batch are still
\* scanned and the failed one is reported on the result and enrichment
\* queues.  Stated for the queue consumer's handler and for processMessage.
C6_FailedScanStillReported ==
    /\ \A i \in 1..Len(ipLog) : FailedScanReported(ipLog[i])
    /\ BatchProcessed =>
          \A i \in 1..Len(message.IPs) : message.IPs[i] # <<>> => ipLog[i].scanned
    /\ \A i \in DOMAIN elog : FailedScanReported(elog[i])

\* The six excluded ranges, read off the octets of a dotted quad.
InExcludedRange(a) ==
    \/ a[1] = 0
    \/ a[1] = 10
    \/ a[1] = 127
    \/ (a[1] = 192 /\ a[2] = 168)
    \/ (a[1] >= 224 /\ a[1] <= 239)
    \/ a[1] >= 240

\* C7: no address built or returned by GenerateRandomIPs or
\* GenerateSequentialIPs lies in 0.0.0.0/8, 10.0.0.0/8, 127.0.0.0/8,
\* 192.168.0.0/16, 224.0.0.0/4 or 240.0.0.0/4.
C7_NoExcludedAddress ==
    /\ \A k \in 1..Len(ips) : ~InExcludedRange(ips[k])
    /\ \A k \in 1..Len(gresult.ips) : ~InExcludedRange(gresult.ips[k])
    /\ \A m \in 1..Len(messages) :
          \A k \in 1..Len(messages[m].IPs) : ~InExcludedRange(messages[m].IPs[k])

\* A sequential call that started inside 10.0.0.0/8 returned the first two
\* addresses after it.
C7_Witness ==
    /\ gpc = "done"
    /\ gresult.err = ""
    /\ gresult.ips = << <<11, 0, 0, 0>>, <<11, 0, 0, 1>> >>

Distinct(list) == \A i, j \in 1..Len(list) : i # j => list[i] # list[j]

\* C8: the addresses of one GenerateRandomIPs call are pairwise distinct, in
\* the list being built and in the list returned, whatever is drawn.
C8_RandomCallDistinct ==
    /\ gpc = "random" => Distinct(ips)
    /\ gpc \in {"done", "collect"} => Distinct(gresult.ips)

\* A random call has two addresses after more draws than addresses (some
\* draws were rejected).
C8_Witness ==
    /\ gpc = "random"
    /\ Len(ips) = 2
    /\ attempts = 4
    /\ Cardinality(generated) = 2

RECURSIVE Flatten(_)
Flatten(msgs) == IF msgs = <<>> THEN <<>> ELSE Head(msgs).IPs \o Flatten(Tail(msgs))

\* C9: the messages of one random generation request carry pairwise distinct
\* addresses: none appears twice, in one message or in two.
C9_RequestDistinct == Distinct(Flatten(messages))

Lt32(x, y) == Le32(x, y) /\ x # y

\* C10: the list GenerateSequentialIPs builds is strictly increasing in
\* 32-bit value.
C10_SequentialIncreasing ==
    gpc = "sequential" =>
        \A k \in 1..(Len(ips) - 1) : Lt32(IPToUint(ips[k]), IPToUint(ips[k + 1]))

\* The list steps down somewhere: the address counter passed 255.255.255.255
\* and came round between two emitted addresses.
PassedTop(list) ==
    \E k \in 1..(Len(list) - 1) : Lt32(IPToUint(list[k + 1]), IPToUint(list[k]))

\* C11: a GenerateSequentialIPs call whose address counter passed
\* 255.255.255.255 before count addresses were emitted ends with an error.
C11_OverflowIsError ==
    [][(gpc = "sequential" /\ gpc' = "done" /\ PassedTop(ips)) => gresult'.err # ""]_vars


\* The dispatcher request in progress got all its batches from the generator
\* and went on to publish them.
RequestBuilt ==
    /\ gpc = "done"
    /\ gcaller \in {"dispatch", "seqdispatch"}
    /\ dcount > 0
    /\ derr \in {"", "failed to publish messages to queue"}

\* The least k with k * b >= n.
CeilDiv(n, b) == CHOOSE k \in 0..n : k * b >= n /\ (k = 0 \/ (k - 1) * b < n)

RECURSIVE SumCounts(_)
SumCounts(msgs) == IF msgs = <<>> THEN 0 ELSE Head(msgs).Count + SumCounts(Tail(msgs))

\* C12: a dispatcher request (random or sequential) with count N > 0 and batch
\* size B > 0 whose batches were all generated has built exactly ceil(N/B)
\* messages; each message's Count is the number of addresses it carries,
\* every message but the last carries exactly B, and the counts sum to N.
\* While the request is being built every message so far obeys the same.
C12_ExactPartition ==
    /\ RequestBuilt =>
          /\ Len(messages) = CeilDiv(dcount, dbatchSize)
          /\ SumCounts(messages) = dcount
    /\ \A m \in 1..Len(messages) :
          /\ messages[m].Count = Len(messages[m].IPs)
          /\ messages[m].Count >= 1
          /\ messages[m].Count <= dbatchSize
          /\ m < CeilDiv(dcount, dbatchSize) => messages[m].Count = dbatchSize

\* Three addresses in batches of two: a full message and a last one of one.
C12_Witness ==
    /\ RequestBuilt
    /\ dcount = 3
    /\ dbatchSize = 2
    /\ Len(messages) = 2
    /\ messages[1].Count = 2
    /\ messages[2].Count = 1


\* C13: a SubmitJob call that leaves its first select while the job queue is
\* full (and the pool is not shutting down) returns the job queue timeout
\* error, and no submitter stays in the first select forever, however many
\* submitters there are.
C13_BackpressureNotDeadlock ==
    /\ [][\A c \in Callers :
            (/\ spc[c] = "enqueue"
             /\ spc'[c] # "enqueue"
             /\ Len(jobQueue) >= PoolWorkers * 2
             /\ ~ctxDone) => (spc'[c] = "returned" /\ sres'[c] = ErrQueueTimeout)]_vars
    /\ \A c \in Callers : (spc[c] = "enqueue") ~> (spc[c] # "enqueue")

\* With the queue full of pending jobs and the pool running, a further
\* submitter has got the job queue timeout error.
C13_Witness ==
    /\ ~ctxDone
    /\ Len(jobQueue) = QueueCap
    /\ \A k \in 1..Len(jobQueue) : jobQueue[k] # NilJob
    /\ \E c \in Callers : spc[c] = "returned" /\ sres[c] = ErrQueueTimeout


\* C14: once Shutdown has begun it returns: the sentinels are enqueued, the
\* workers exit and the wait ends, whatever the job queue held.
C14_ShutdownTerminates == (shpc = "sending") ~> (shpc = "returned")

\* C15: a SubmitJob call made after Shutdown began leaves its first select
\* only by returning: its job is not put in the job queue and the send on the
\* closed queue does not happen (the shutdown error is the expected return;
\* the submission deadline expiring first is let pass).
C15_SubmitAfterShutdownRejected ==
    [][\A c \in Callers :
          (spc[c] = "enqueue" /\ safter[c] /\ spc'[c] # "enqueue") =>
              /\ spc'[c] = "returned"
              /\ sres'[c] \in {ErrShutdown, ErrQueueTimeout}]_vars

\* C16: the zgrab2 executions in progress never exceed the pool's worker
\* count, in the scanner as main wires it.
C16_ProbeConcurrencyBounded == InProgress <= PoolWorkers


\* C17: in the shutdown sequence of main the bus is closed only after the
\* probe pool has been shut down, and never while an IP scan of a delivered
\* batch is in flight unless the shutdown deadline has expired.
C17_OrderedShutdown ==
    [][(mpc \in {"stop", "deferred"} /\ channelOpen /\ ~channelOpen') =>
          /\ ~scanning \/ deadline = "expired"
          /\ shpc = "returned"]_vars

\* C18: StartScanning on a running engine returns the already-running error,
\* registers no consumer and leaves the engine running; at most one consumer
\* is registered at any time.
C18_StartWhileRunningRejected ==
    /\ [](consumers <= 1)
    /\ [][(lcalls' # lcalls /\ startResult' # startResult /\ isRunning) =>
            /\ startResult' = ErrAlreadyRunning
            /\ consumers' = consumers
            /\ isRunning'
            /\ channelOpen' = channelOpen]_vars

C18_Witness ==
    /\ startResult = ErrAlreadyRunning
    /\ isRunning
    /\ consumers = 1
    /\ scanning

\* C19: for a scanned address a service-analysis record is published exactly
\* when its scan result contains an open port.
C19_ServiceAnalysisIffOpenPorts ==
    \A i \in 1..Len(ipLog) :
        ipLog[i].scanned =>
            (Attempted(ipLog[i], "service_analysis_queue") <=> FoundOpenPorts(ipLog[i]))

IsQueueCall(c) == c.sink # "mongodb"

\* The publishes of one loop-iteration entry, in order.
QueueCalls(e) == SelectSeq(e.calls, IsQueueCall)

\* The mongodb call of the entry failed.
SaveFailed(e) ==
    \E k \in 1..Len(e.calls) : e.calls[k].sink = "mongodb" /\ ~e.calls[k].ok

\* C20: with a store configured every scanned address has exactly one
\* persistence attempt; the publishes made for it are the same whether the
\* attempt succeeds or fails; and a handler that entered its loop processes
\* every address and acks the delivery.
C20_PersistenceBestEffort ==
    /\ \A i \in 1..Len(ipLog) :
          (ipLog[i].scanned /\ ipLog[i].db) =>
              /\ CallsTo(ipLog[i], "mongodb") = 1
              /\ \A net \in NetAnswers, o \in SinkOutcomes :
                    HandleIP(ipLog[i].ip, message.BatchID, enablePing, TRUE, net, o)
                        = ipLog[i] =>
                    QueueCalls(HandleIP(ipLog[i].ip, message.BatchID, enablePing, TRUE,
                                        net, [o EXCEPT !.save = ~o.save]))
                        = QueueCalls(ipLog[i])
    /\ (cpc = "returned" /\ Len(ipLog) > 0) =>
          /\ ~herr
          /\ acks = 1
          /\ Len(ipLog) = Len(message.IPs)

\* The save of the first address of a two-address batch failed; its three
\* publishes were made, the second address was scanned and saved, and the
\* delivery was acked.
C20_Witness ==
    /\ cpc = "returned"
    /\ acks = 1
    /\ Len(ipLog) = 2
    /\ ipLog[1].db
    /\ SaveFailed(ipLog[1])
    /\ Attempted(ipLog[1], "scan_result_queue")
    /\ Attempted(ipLog[1], "enrichment_queue")
    /\ Attempted(ipLog[1], "service_analysis_queue")
    /\ ipLog[2].scanned
    /\ CallsTo(ipLog[2], "mongodb") = 1

\* The statuses of the ports of a scan result, in order.
PortStatuses(sr) == [k \in 1..Len(sr.Ports) |-> sr.Ports[k].Status]

\* The ping of the running call got no reply: the ping command ended
\* unsuccessfully before its deadline.
HostDown ==
    /\ scanReq.pingOn
    /\ isValidIP(scanReq.ip)
    /\ scanNet.ping.err # <<>>
    /\ ~scanNet.ping.ctxErr

\* C21: a completed result with is_up = false has no ports, and with the ping
\* enabled a host that is down has none of its ports probed.
C21_DownHostHasNoPorts ==
    scanPc = "returned" =>
        /\ (scanOut.result.Status = ScanStatusCompleted /\ ~scanOut.result.IsUp) =>
               (scanOut.result.Ports = <<>> /\ scanOut.attempts = <<>>)
        /\ HostDown => (scanOut.result.Ports = <<>> /\ scanOut.attempts = <<>>)

\* The host is down while both of its ports would accept a connection; the
\* result has no port and no connect was attempted.
C21_Witness ==
    /\ scanPc = "returned"
    /\ HostDown
    /\ \A p \in PortSet : scanNet.opensAt[p] = 1
    /\ scanOut.pinged
    /\ scanOut.result.Ports = <<>>
    /\ scanOut.attempts = <<>>

\* C22: with the ping enabled, a negative answer of the host gives a result
\* with status completed, is_up = false, no ports and no error.
C22_NegativePingCompletes ==
    (scanPc = "returned" /\ HostDown) =>
        /\ scanOut.err = ""
        /\ scanOut.result.Status = ScanStatusCompleted
        /\ ~scanOut.result.IsUp
        /\ scanOut.result.Ports = <<>>

\* C23: a scan requested for an address of an excluded range is rejected
\* before any probe: no ping is run and no port is connected to.
C23_ExcludedTargetRejected ==
    (scanPc = "returned" /\ isValidIP(scanReq.ip) /\ InExcludedRange(scanReq.ip)) =>
        /\ scanOut.err # ""
        /\ ~scanOut.pinged
        /\ scanOut.attempts = <<>>

\* C24: once the ports are scanned ScanIP returns status completed and no
\* error; a port is open in the result exactly when one of the connects made
\* to it was accepted; and the statuses and the error are the same whatever
\* the outcomes of the banner grabs.
C24_BannerFailureAbsorbed ==
    (scanPc = "returned" /\ scanOut.attempts # <<>>) =>
        /\ scanOut.err = ""
        /\ scanOut.result.Status = ScanStatusCompleted
        /\ Len(scanOut.result.Ports) = Len(PortsToScan)
        /\ \A k \in 1..Len(PortsToScan) :
              (scanOut.result.Ports[k].Status = PortStatusOpen) <=>
                  /\ scanNet.opensAt[PortsToScan[k]] # 0
                  /\ scanOut.attempts[k] >= scanNet.opensAt[PortsToScan[k]]
        /\ \A b \in [PortSet -> BannerOutcomes] :
              LET other == ScanIP(scanReq.ip, scanReq.pingOn, "", workerID,
                                  [scanNet EXCEPT !.banner = b])
              IN  /\ other.err = scanOut.err
                  /\ other.result.Status = scanOut.result.Status
                  /\ PortStatuses(other.result) = PortStatuses(scanOut.result)

\* Both ports are open, the banner grab fails on the first and succeeds on
\* the second: both are open in the completed result, the second with its
\* banner.
C24_Witness ==
    /\ scanPc = "returned"
    /\ scanNet.opensAt = [p \in PortSet |-> 1]
    /\ scanNet.banner[PortsToScan[1]] = "i/o timeout"
    /\ scanNet.banner[PortsToScan[2]] = "banner"
    /\ scanOut.result.Status = ScanStatusCompleted
    /\ PortStatuses(scanOut.result) = <<PortStatusOpen, PortStatusOpen>>
    /\ scanOut.result.Ports[1].Banner = ""
    /\ scanOut.result.Ports[2].Banner # ""

\* C30: a port that never accepts is attempted max_retries + 1 times, and a
\* port that accepts from attempt k on is attempted k times.
C30_RetryUntilSuccess ==
    (scanPc = "returned" /\ scanOut.attempts # <<>>) =>
        \A k \in 1..Len(PortsToScan) :
            scanOut.attempts[k] =
                IF scanNet.opensAt[PortsToScan[k]] = 0
                THEN MaxRetries + 1
                ELSE scanNet.opensAt[PortsToScan[k]]

\* 32-bit values the permutation is examined on: small ones, the largest
\* value s.rand.Int31() can return, and values from 2^31 on.
Samples32 ==
    {<<0, 0>>, <<0, 1>>, <<0, 2>>, <<1, 0>>, <<\H7fff, \Hffff>>,
     <<\H8000, 0>>, <<\H8000, 1>>, <<\Hffff, \Hffff>>}

\* The steps of permute32 undone in reverse order: x ^ (x >> 16) is its own
\* inverse, x ^ (x >> 13) is undone by y ^ (y >> 13) ^ (y >> 26), and the
\* multipliers 0xc2b2ae35, 0x85ebca6b and 0x7fffffff have the inverses
\* 0x7ed1b41d, 0xa5cb9243 and 0x7fffffff modulo 2^32.
unpermute32(y, sd) ==
    LET y1 == Xor32(y, Shr32(y, 16))
        y2 == Mul32(y1, <<\H7ed1, \Hb41d>>)
        y3 == Xor32(Xor32(y2, Shr32(y2, 13)), Shr32(Shr32(y2, 13), 13))
        y4 == Mul32(y3, <<\Ha5cb, \H9243>>)
        y5 == Xor32(y4, Shr32(y4, 16))
    IN  Mul32(Xor32(y5, sd), <<\H7fff, \Hffff>>)

\* C26: permute32 is one-to-one under the seed of the service: distinct
\* values have distinct images, and every image is carried back to its value
\* by the inverse steps.
C26_PermuteBijective ==
    gpc = "idle" =>
        \A x \in Samples32 :
            /\ unpermute32(permute32(x, seed), seed) = x
            /\ \A y \in Samples32 :
                  permute32(x, seed) = permute32(y, seed) => x = y

\* The service was built with the seed 0xDEADBEEF; 0 and 2^31 have different
\* images.
C26_Witness ==
    /\ gpc = "idle"
    /\ seed = <<\HDEAD, \HBEEF>>
    /\ permute32(<<0, 0>>, seed) # permute32(<<\H8000, 0>>, seed)

\* A value s.rand.Int31() can return: below 2^31.
IsInt31(x) == x[1] < \H8000

\* C27: every valid public address that is the image of some 32-bit value is
\* the image of a value the generator can draw.
C27_WholeSpaceReachable ==
    gpc = "idle" =>
        \A x \in Samples32 :
            isValidPublicIP(UintToIP(permute32(x, seed))) =>
                IsInt31(unpermute32(permute32(x, seed), seed))

\* C25: the addresses GenerateRandomIPs builds are determined by the seed of
\* the generator: from the same seed and the same addresses built so far,
\* the next iteration gives the same list whatever the random source of the
\* generator yields, so two generators with one seed return equal lists and
\* the shorter of two outputs is a prefix of the longer.
C25_SameSeedSameSequence ==
    [][(gpc = "random" /\ attempts' = attempts + 1) =>
          \A randomUint \in Draws :
              ips' = RandomStep(generated, ips, seed, randomUint).ips]_vars

BlockEnd(a) ==
    IF a[1] = 192 THEN <<192, 168, 255, 255>>
    ELSE IF a[1] >= 224 THEN <<255, 255, 255, 255>>
    ELSE <<a[1], 255, 255, 255>>

\* No valid address lies from lo up to (not including) b, and b is reached
\* from lo by going upwards.
RECURSIVE GapIsExcluded(_, _)
GapIsExcluded(lo, b) ==
    IF lo = b THEN TRUE
    ELSE IF ~InExcludedRange(lo) THEN FALSE
    ELSE IF BlockEnd(lo) = <<255, 255, 255, 255>> THEN FALSE
    ELSE GapIsExcluded(IncrementFrom(BlockEnd(lo), 4), b)

\* n valid addresses from start upwards exist: the n-th is at most
\* 223.255.255.255 (the valid addresses from 192.169.0.0 to 223.255.255.255
\* have no gap, and n is smaller than their number).
AddressesExist(start, n) ==
    LET u == IPToUint(start)
        lo == u[2] + n - 1
    IN  Le32(<<u[1] + (lo \div W16), lo % W16>>, <<\HDFFF, \HFFFF>>)

\* list is the n smallest valid addresses from start upwards, ascending.
SmallestValidFrom(start, n, list) ==
    /\ Len(list) = n
    /\ \A k \in 1..n : ~InExcludedRange(list[k])
    /\ n > 0 => GapIsExcluded(start, list[1])
    /\ \A k \in 1..(n - 1) : GapIsExcluded(IncrementFrom(list[k], 4), list[k + 1])

\* GenerateSequentialIPs(dstartIP, n) has returned to the dispatcher, n
\* being the size of batch di.
SequentialReturned ==
    /\ gpc = "collect"
    /\ gcaller = "seqdispatch"
    /\ ParseIP(dstartIP) # NilIP

\* The general part of C29: when n valid addresses from the start address
\* upwards exist, the call returns exactly these, in ascending order.
SequentialIsSmallest ==
    (SequentialReturned
       /\ AddressesExist(dstartIP, CurrentBatchSize(di, dcount, dbatchSize))) =>
        /\ gresult.err = ""
        /\ SmallestValidFrom(dstartIP, CurrentBatchSize(di, dcount, dbatchSize),
                             gresult.ips)

\* C29 as stated: the general part, and from 9.9.9.255 the next address is
\* 11.0.0.0.
C29_SequentialSmallestValid ==
    /\ SequentialIsSmallest
    /\ (SequentialReturned /\ dstartIP = <<9, 9, 9, 255>> /\ Len(gresult.ips) >= 2) =>
          gresult.ips[2] = <<11, 0, 0, 0>>

\* C29 with its example put right: the general part; the address after
\* 9.9.9.255 is 9.9.10.0, and it is from 9.255.255.255 that the next address
\* is 11.0.0.0.
C29_SequentialSmallestValidAmended ==
    /\ SequentialIsSmallest
    /\ (SequentialReturned /\ dstartIP = <<9, 9, 9, 255>> /\ Len(gresult.ips) >= 2) =>
          gresult.ips[2] = <<9, 9, 10, 0>>
    /\ (SequentialReturned /\ dstartIP = <<9, 255, 255, 254>>
           /\ Len(gresult.ips) >= 3) =>
          (gresult.ips[2] = <<9, 255, 255, 255>> /\ gresult.ips[3] = <<11, 0, 0, 0>>)

\* Three addresses from 9.255.255.254: the block 10.0.0.0/8 is skipped.
C29_Witness ==
    /\ SequentialReturned
    /\ dstartIP = <<9, 255, 255, 254>>
    /\ gresult.ips = <<<<9, 255, 255, 254>>, <<9, 255, 255, 255>>, <<11, 0, 0, 0>>>>

\* The documents of the output of the running request that parse.
ParsedDocs == {k \in 1..Len(grabIn.output) : grabIn.output[k] \in DataObjects}

\* The score of a banner result as the specification gives it.
Score(info) ==
    (CASE info.Confidence = "zgrab2" -> 100
       [] info.Confidence = "banner" -> 50
       [] info.Confidence = "port" -> 10)
    + (IF info.Version # "" THEN 20 ELSE 0)
    + (IF info.RawBanner.len > 10 THEN 10 ELSE 0)
    + (IF info.Metadata # [banner |-> NoKey, ssh |-> NoKey] THEN 5 ELSE 0)

DocInfo(k) == analyzeZGrabResult(grabIn.output[k], grabIn.port)

\* zgrab2 ran without error for the request that has returned.
ProbeRan == grabPc = "returned" /\ grabIn.submitErr = "" /\ grabIn.execErr = ""

\* C31: among the documents of one zgrab2 output that parse, the result
\* returned is that of the document with the highest score (base 100, 50 or
\* 10 by confidence, +20 with a version, +10 with a raw banner longer than
\* 10, +5 with metadata), and of the first such document in output order
\* when several share the highest score.
C31_HighestScoreFirstSeen ==
    (ProbeRan /\ ParsedDocs # {}) =>
        /\ grabOut.err = ""
        /\ \E k \in ParsedDocs :
              /\ grabOut.info = DocInfo(k)
              /\ \A j \in ParsedDocs :
                    /\ Score(DocInfo(j)) <= Score(DocInfo(k))
                    /\ j < k => Score(DocInfo(j)) < Score(DocInfo(k))

\* Two different documents share the highest score and the first is returned.
C31_Witness ==
    /\ ProbeRan
    /\ ParsedDocs = {1, 2}
    /\ DocInfo(1) # DocInfo(2)
    /\ Score(DocInfo(1)) = Score(DocInfo(2))
    /\ grabOut.info = DocInfo(1)

\* The request that has returned was answered by a line read.
AnsweredByLineRead ==
    /\ grabOut.lineReads >= 1
    /\ \E r \in 1..2 :
          /\ grabOut.info = FallbackBannerGrab(grabIn.reads[r], grabIn.port).info
          /\ grabOut.err = FallbackBannerGrab(grabIn.reads[r], grabIn.port).err

\* C32: when zgrab2 returns an error, or when no document of its output can
\* be parsed, the request is answered by the line-read path (connect, CRLF,
\* one line) and returns that path's result.
C32_FallsThroughToLineRead ==
    (grabPc = "returned" /\ grabIn.submitErr = ""
       /\ (grabIn.execErr # "" \/ ParsedDocs = {})) => AnsweredByLineRead

\* C33: for every job a worker pulls from the queue, the worker sends the
\* outcome on the job's Result channel exactly once, and that send can
\* always proceed, also when the submitter has returned with a timeout or
\* shutdown error meanwhile.
C33_ResultWrittenOnce ==
    /\ [](\A c \in Callers : writes[c] <= 1)
    /\ [](\A w \in Workers : wpc[w] = "busy" => ResultCanSend(wjob[w]))
    /\ [][\A w \in Workers :
            (wpc[w] = "busy" /\ wpc'[w] # "busy") =>
                (wpc'[w] = "select" /\ writes'[wjob[w]] = writes[wjob[w]] + 1)]_vars
    /\ [][\A c \in Callers :
            writes'[c] # writes[c] =>
                \E w \in Workers : wpc[w] = "busy" /\ wjob[w] = c]_vars

\* A worker has sent the result of a job whose submitter returned with the
\* timeout error, and selects again.
C33_Witness ==
    \E c \in Callers :
        /\ spc[c] = "returned"
        /\ sres[c] = ErrGrabTimeout
        /\ writes[c] = 1
        /\ \A w \in Workers : wpc[w] = "select"

\* C34: every SubmitJob call returns, with the result or with the queue
\* timeout, grab timeout or shutdown error, under every interleaving of
\* submitters, workers and Shutdown; a call whose job was queued and that
\* leaves the second select without a result, the pool not being shut down,
\* returns the grab timeout error.
C34_SubmitJobReturns ==
    /\ \A c \in Callers : (spc[c] \in {"enqueue", "wait"}) ~> (spc[c] = "returned")
    /\ [](\A c \in Callers :
            spc[c] = "returned" =>
                sres[c] \in {"ok", ErrQueueTimeout, ErrGrabTimeout, ErrShutdown})
    /\ [][\A c \in Callers :
            (spc[c] = "wait" /\ spc'[c] # "wait" /\ c \notin rready /\ ~ctxDone) =>
                (spc'[c] = "returned" /\ sres'[c] = ErrGrabTimeout)]_vars

\* C35: during one ScanPorts call at most Concurrency port attempts are in
\* flight, the call returns only after every port goroutine has finished,
\* and the list returned holds exactly one record for each port of the port
\* list, closed ports included, in any order.
C35_BoundedSweepComplete ==
    /\ Cardinality({p \in SweepPortSet : portPc[p] = "scanning"}) <= SweepConcurrency
    /\ sweepPc = "returned" =>
          /\ \A p \in SweepPortSet : portPc[p] = "done"
          /\ Len(results) = Len(SweepPorts)
          /\ \A p \in SweepPortSet :
                \E k \in 1..Len(results) :
                    /\ results[k].Number = p
                    /\ results[k].Status =
                          IF sweepNet.opensAt[p] = 1 THEN PortStatusOpen
                          ELSE PortStatusClosed

\* A call has returned a list that is not in port-list order and holds a
\* closed port.
C35_Witness ==
    /\ sweepPc = "returned"
    /\ results[1].Number # SweepPorts[1]
    /\ \E k \in 1..Len(results) : results[k].Status = PortStatusClosed

\* C36: no update of the statistics is lost and no read sees a half-made
\* update: when no UpdateStats call is in progress, total_scanned is the
\* number of scans recorded and successful + failed = total_scanned, and
\* every read of the counters gives successful + failed = total_scanned.
C36_NoLostUpdate ==
    /\ (\A u \in Updaters : updPc[u] = "idle") =>
          /\ counters.TotalScanned = recorded
          /\ counters.SuccessfulScans + counters.FailedScans = counters.TotalScanned
    /\ view.SuccessfulScans + view.FailedScans = view.TotalScanned

\* C37: the messages of a sequential request continue one another: at every
\* point the addresses of the messages built so far, in message order, are
\* what a single GenerateSequentialIPs call returns for that many addresses
\* (the first batch is that call made from the start address), and the
\* request that built all its batches carries count addresses.
C37_BatchesContinue ==
    /\ (gpc = "collect" /\ gcaller = "seqdispatch" /\ di = 0 /\ gresult.err = "") =>
          gresult.ips = SequentialIPs(ParseIP(dstartIP),
                                      CurrentBatchSize(0, dcount, dbatchSize))
    /\ (gcaller = "seqdispatch" /\ messages # <<>>) =>
          Flatten(messages) = SequentialIPs(messages[1].IPs[1], Len(Flatten(messages)))
    /\ (RequestBuilt /\ gcaller = "seqdispatch") => Len(Flatten(messages)) = dcount

\* Three messages of one address each, across the block 10.0.0.0/8.
C37_Witness ==
    /\ RequestBuilt
    /\ gcaller = "seqdispatch"
    /\ Len(messages) = 3
    /\ Flatten(messages) = <<<<9, 255, 255, 254>>, <<9, 255, 255, 255>>, <<11, 0, 0, 0>>>>

\* C38: when a publish of PublishBatch fails the dispatcher returns an error,
\* the messages before the failing one are on the queue in index order, and
\* no later message is; without a failure all messages are on the queue.
C38_PublishFailureKeepsPrefix ==
    (gpc = "done" /\ gcaller \in {"dispatch", "seqdispatch"} /\ dcount > 0) =>
        /\ Len(outQueue) <= Len(messages)
        /\ outQueue = SubSeq(messages, 1, Len(outQueue))
        /\ (derr = "") <=> (Len(outQueue) = Len(messages) /\ AllBatchesBuilt)
        /\ (Len(outQueue) < Len(messages) /\ AllBatchesBuilt) =>
              derr = "failed to publish messages to queue"

\* The second of three messages could not be published.
C38_Witness ==
    /\ gpc = "done"
    /\ derr = "failed to publish messages to queue"
    /\ Len(messages) = 3
    /\ outQueue = <<messages[1]>>

\* C39: nothing is published before every batch of the request has been
\* generated: while batches are built the queue has no message of the
\* request, and a request whose generator call failed for some batch returns
\* an error with no message published.
C39_GenerateBeforePublish ==
    /\ outQueue # <<>> => (AllBatchesBuilt /\ Len(messages) = NumBatches(dcount, dbatchSize))
    /\ (gpc = "done" /\ derr \in {"failed to generate IPs for batch",
                                    "failed to generate sequential IPs for batch"}) =>
          outQueue = <<>>

\* The generator failed for the second batch: the first message was built
\* and is not published.
C39_Witness ==
    /\ gpc = "done"
    /\ derr = "failed to generate IPs for batch"
    /\ Len(messages) = 1
    /\ outQueue = <<>>

\* C40: GenerateRandomIPs(N) makes at most 100 * N draws and stops then at
\* the latest, whatever is drawn; it returns exactly N addresses without
\* error, or an error and no address.
C40_RandomBoundedAllOrNothing ==
    /\ gpc = "random" =>
          /\ attempts <= AttemptsPerIP * gcount
          /\ attempts = AttemptsPerIP * gcount => ~RandomLoopCondition(ips, gcount, attempts)
    /\ (gpc \in {"done", "collect"} /\ gcaller \in {"direct", "dispatch"}
          /\ gresult # NoResult /\ seqIP = NilIP) =>
          \/ gresult.err = "" /\ Len(gresult.ips) = gcount
          \/ gresult.err # "" /\ gresult.ips = <<>>

\* A call for two addresses used up its draws and returned the error.
C40_Witness ==
    /\ gpc = "done"
    /\ gcaller = "direct"
    /\ gcount = 2
    /\ gresult.err = "could only generate fewer valid IPs"
    /\ gresult.ips = <<>>

====
